---- MODULE Spec2Model ----
(***************************************************************************)
(* Model of the scheduling core of RedditMastermind: the constraint        *)
(* evaluator (optimisation/constraints.ts) and the scheduler service       *)
(* (SchedulerService: generateTimeSlots, scoreThread, scheduleThreads).    *)
(*                                                                         *)
(* Time is counted in whole hours of local time since Sunday 2025-01-05    *)
(* 00:00, so that hour 24 is Monday 2025-01-06 00:00 and the weekday of a  *)
(* date is (date \div 24) % 7 with 0 = Sunday, as Date.getDay() numbers     *)
(* it.  JavaScript numbers are modelled as exact rationals <<n, d>>.       *)
(***************************************************************************)
EXTENDS Integers, Sequences, FiniteSets, Bags, TLC

VARIABLES
    pc,                 \* position of the modelled call
    call,               \* arguments of a call to one of the pure functions
    ret,                \* value returned by that call
    threads,            \* scheduleThreads: the threads argument
    campaign,           \* scheduleThreads: the campaign argument
    history,            \* persistence.getHistoryLast30Days() snapshot
    personaUsage,       \* persistence.getPersonaUsageCount snapshot
    keywordUrgency,     \* persistence.getKeywordUrgency snapshot
    slots,              \* const slots
    scoredThreads,      \* const scoredThreads (sorted)
    slotIdx,            \* index of the next slot of the running for-of loop
    schedule,           \* const schedule
    usedThreads,        \* const usedThreads
    unfilledSlots,      \* const unfilledSlots
    remainingThreads,   \* const remainingThreads (fallback pass)
    personaUsageCounts, \* const personaUsageCounts
    keywordUrgencies,   \* const keywordUrgencies
    placed,             \* for each schedule entry, the pass that pushed it
                        \* and the index of its slot in slots
    idSuffix,           \* what Date.now() and Math.random() contribute to the
                        \* ids generated by the run
    gen,                \* generateCalendar: its locals
    calendars           \* persistence: the calendars handed to saveCalendar

vars == <<pc, call, ret, threads, campaign, history, personaUsage,
          keywordUrgency, slots, scoredThreads, slotIdx, schedule,
          usedThreads, unfilledSlots, remainingThreads, personaUsageCounts,
          keywordUrgencies, placed, idSuffix, gen, calendars>>

\* what the steps of a scheduleThreads run neither read nor write, but for
\* the id suffix, which they read
callerVars == <<idSuffix, gen, calendars>>

\* the arguments, the snapshots and the locals of a scheduleThreads run
runVars == <<threads, campaign, history, personaUsage, keywordUrgency,
             slots, scoredThreads, slotIdx, schedule, usedThreads,
             unfilledSlots, remainingThreads, personaUsageCounts,
             keywordUrgencies, placed>>

schedVars == <<runVars, callerVars>>

-----------------------------------------------------------------------------
(* Bounds and program constants *)

\* longest threads argument explored
MaxThreads == 3
\* largest postsPerWeek explored in a scheduleThreads run
MaxPostsPerWeek == 4
\* largest postsPerWeek handed to generateTimeSlots directly
MaxSlotCount == 11
\* largest postsPerWeek the controller accepts
ApiMaxPostsPerWeek == 10
\* the 48 hour window of checkSubredditFrequency
WindowHours == 48
\* Monday 2025-01-06 00:00
Monday20250106 == 24

None == "none"
\* null / undefined where the other values are records
Null == [null |-> TRUE]
\* a topicEmbedding that is present
Embedding(vector) == [vector |-> vector]

-----------------------------------------------------------------------------
(* Exact rational arithmetic for JavaScript numbers *)

Abs(x) == IF x < 0 THEN -x ELSE x

RECURSIVE Gcd(_, _)
Gcd(a, b) == IF b = 0 THEN a ELSE Gcd(b, a % b)

RNorm(n, d) ==
    LET s == IF d < 0 THEN -1 ELSE 1
        g == Gcd(Abs(n), Abs(d))
    IN  <<(s * n) \div g, (s * d) \div g>>

R(n) == <<n, 1>>
Frac(n, d) == RNorm(n, d)
RAdd(a, b) == RNorm(a[1] * b[2] + b[1] * a[2], a[2] * b[2])
RSub(a, b) == RNorm(a[1] * b[2] - b[1] * a[2], a[2] * b[2])
RMul(a, b) == RNorm(a[1] * b[1], a[2] * b[2])
RDiv(a, b) == RNorm(a[1] * b[2], a[2] * b[1])
RLt(a, b) == a[1] * b[2] < b[1] * a[2]
RLe(a, b) == a[1] * b[2] <= b[1] * a[2]
RMax(a, b) == IF RLt(a, b) THEN b ELSE a
RMin(a, b) == IF RLt(b, a) THEN b ELSE a

-----------------------------------------------------------------------------
(* SchedulerService.generateTimeSlots *)

daysOfWeek == <<"Sunday", "Monday", "Tuesday", "Wednesday", "Thursday",
                "Friday", "Saturday">>

optimalHours == <<9, 12, 15, 18, 21>>

\* Date.getDay() of a date
getDay(date) == (date \div 24) % 7

\* new Date(d); setDate(getDate() + days); setHours(hour, 0, 0, 0)
slotDateOf(weekStartDate, days, hour) ==
    ((weekStartDate + days * 24) \div 24) * 24 + hour

\* dayInterval with Math.ceil in place of Math.floor
dayIntervalCeil(postsPerWeek) == (7 + postsPerWeek - 1) \div postsPerWeek

\* Math.floor(7 / postsPerWeek)
dayInterval(postsPerWeek) == 7 \div postsPerWeek

\* nextCurrentDay without the wrap at 7
nextCurrentDayNoWrap(currentDay, postsPerWeek) ==
    currentDay + (7 \div postsPerWeek)

\* nextCurrentDay wrapping only beyond 7
nextCurrentDayWrapAbove7(currentDay, postsPerWeek) ==
    LET next == currentDay + (7 \div postsPerWeek)
    IN  IF next > 7 THEN next % 7 ELSE next

\* currentDay += dayInterval; if (currentDay >= 7) currentDay = currentDay % 7
nextCurrentDay(currentDay, postsPerWeek) ==
    LET next == currentDay + dayInterval(postsPerWeek)
    IN  IF next >= 7 THEN next % 7 ELSE next

\* the body of the for loop, from iteration i with the running currentDay
RECURSIVE slotsFrom(_, _, _, _)
slotsFrom(weekStartDate, postsPerWeek, i, currentDay) ==
    IF i >= postsPerWeek THEN <<>>
    ELSE LET hour == optimalHours[(i % Len(optimalHours)) + 1]
             slotDate == slotDateOf(weekStartDate, currentDay, hour)
             slot == [date |-> slotDate,
                      dayOfWeek |-> daysOfWeek[getDay(slotDate) + 1],
                      preferredHour |-> hour]
         IN  <<slot>> \o slotsFrom(weekStartDate, postsPerWeek, i + 1,
                                   nextCurrentDay(currentDay, postsPerWeek))

generateTimeSlots(weekStartDate, postsPerWeek) ==
    slotsFrom(weekStartDate, postsPerWeek, 0, 1)

-----------------------------------------------------------------------------
(* Helpers for JavaScript collections *)

Range(seq) == {seq[i] : i \in 1..Len(seq)}

\* Map.get(key) || fallback, for a Map of counts (undefined and 0 are falsy)
getOrZero(map, key) == IF key \in DOMAIN map THEN map[key] ELSE 0

\* Map.get(key) || 0.5, for a Map of rationals (undefined and 0 are falsy)
getOrHalf(map, key) ==
    IF key \in DOMAIN map /\ map[key][1] # 0 THEN map[key] ELSE Frac(1, 2)

\* Array.prototype.slice(-n)
sliceLast(seq, n) ==
    IF Len(seq) <= n THEN seq ELSE SubSeq(seq, Len(seq) - n + 1, Len(seq))

-----------------------------------------------------------------------------
(* constraints.ts: hard constraint checkers *)

\* Reason strings are kept as the sequence of their parts.
contains(reason, part) == \E i \in 1..Len(reason) : reason[i] = part

\* checkSubredditFrequency with hoursDiff <= 48 in place of hoursDiff < 48
checkSubredditFrequencyInclusive(thread, existingSchedule, hist, proposedSlot) ==
    LET subreddit == thread.post.subreddit
        proposedDate == proposedSlot.date
        tooClose(scheduled) ==
            /\ scheduled.thread.post.subreddit = subreddit
            /\ Abs(proposedDate - scheduled.slot.date) <= WindowHours
        twoDaysAgo == proposedDate - WindowHours
        recentInSubreddit ==
            SelectSeq(hist, LAMBDA h : h.subreddit = subreddit
                                        /\ h.postedAt >= twoDaysAgo)
    IN  IF \E i \in 1..Len(existingSchedule) : tooClose(existingSchedule[i])
        THEN [passed |-> FALSE,
              reason |-> <<subreddit, "already has a post scheduled within",
                           "48 hours">>]
        ELSE IF Len(recentInSubreddit) > 0
        THEN [passed |-> FALSE,
              reason |-> <<subreddit, "was posted to within the last",
                           "48 hours">>]
        ELSE [passed |-> TRUE]

\* checkSubredditFrequency with a 24 hour window for scheduled posts
checkSubredditFrequency24(thread, existingSchedule, hist, proposedSlot) ==
    LET subreddit == thread.post.subreddit
        proposedDate == proposedSlot.date
        tooClose(scheduled) ==
            /\ scheduled.thread.post.subreddit = subreddit
            /\ Abs(proposedDate - scheduled.slot.date) < 24
        twoDaysAgo == proposedDate - WindowHours
        recentInSubreddit ==
            SelectSeq(hist, LAMBDA h : h.subreddit = subreddit
                                        /\ h.postedAt >= twoDaysAgo)
    IN  IF \E i \in 1..Len(existingSchedule) : tooClose(existingSchedule[i])
        THEN [passed |-> FALSE,
              reason |-> <<subreddit, "already has a post scheduled within",
                           "48 hours">>]
        ELSE IF Len(recentInSubreddit) > 0
        THEN [passed |-> FALSE,
              reason |-> <<subreddit, "was posted to within the last",
                           "48 hours">>]
        ELSE [passed |-> TRUE]

checkSubredditFrequency(thread, existingSchedule, hist, proposedSlot) ==
    LET subreddit == thread.post.subreddit
        proposedDate == proposedSlot.date
        tooClose(scheduled) ==
            /\ scheduled.thread.post.subreddit = subreddit
            /\ Abs(proposedDate - scheduled.slot.date) < WindowHours
        twoDaysAgo == proposedDate - WindowHours
        recentInSubreddit ==
            SelectSeq(hist, LAMBDA h : h.subreddit = subreddit
                                        /\ h.postedAt >= twoDaysAgo)
    IN  IF \E i \in 1..Len(existingSchedule) : tooClose(existingSchedule[i])
        THEN [passed |-> FALSE,
              reason |-> <<subreddit, "already has a post scheduled within",
                           "48 hours">>]
        ELSE IF Len(recentInSubreddit) > 0
        THEN [passed |-> FALSE,
              reason |-> <<subreddit, "was posted to within the last",
                           "48 hours">>]
        ELSE [passed |-> TRUE]

\* the for loop of checkPersonaSelfReply from index i (1-based)
RECURSIVE selfReplyLoop(_, _)
selfReplyLoop(comments, i) ==
    IF i > Len(comments) THEN [passed |-> TRUE]
    ELSE LET comment == comments[i]
             sameId == {j \in 1..Len(comments) : comments[j].id = comment.replyTo}
             \* Map.set keeps the last persona stored under an id
             parentPersona ==
                 IF sameId = {} THEN None
                 ELSE comments[CHOOSE j \in sameId :
                                   \A k \in sameId : k <= j].personaId
         IN  IF i > 1 /\ comment.personaId = comments[i - 1].personaId
             THEN [passed |-> FALSE,
                   reason |-> <<"Persona", comment.personaId,
                                "has consecutive comments">>]
             ELSE IF /\ comment.replyTo # "root"
                     /\ parentPersona # None
                     /\ parentPersona = comment.personaId
             THEN [passed |-> FALSE,
                   reason |-> <<"Persona", comment.personaId,
                                "is replying to themselves">>]
             ELSE selfReplyLoop(comments, i + 1)

\* checkPersonaSelfReply with check 3 comparing every comment with the OP
checkPersonaSelfReplyAnyOp(thread) ==
    LET opPersona == thread.post.opPersonaId
        comments == thread.comments
        loop == selfReplyLoop(comments, 1)
    IN  IF ~loop.passed THEN loop
        ELSE IF \E i \in 1..Len(comments) : comments[i].personaId = opPersona
        THEN [passed |-> FALSE,
              reason |-> <<"OP cannot be the first commenter on their own post">>]
        ELSE [passed |-> TRUE]

checkPersonaSelfReply(thread) ==
    LET opPersona == thread.post.opPersonaId
        comments == thread.comments
        loop == selfReplyLoop(comments, 1)
    IN  IF ~loop.passed THEN loop
        ELSE IF Len(comments) > 0 /\ comments[1].personaId = opPersona
        THEN [passed |-> FALSE,
              reason |-> <<"OP cannot be the first commenter on their own post">>]
        ELSE [passed |-> TRUE]

\* checkWeeklyLimit counting the post under check as well
checkWeeklyLimitCountingCandidate(existingSchedule, weeklyLimit) ==
    IF Len(existingSchedule) + 1 >= weeklyLimit
    THEN [passed |-> FALSE,
          reason |-> <<"Weekly limit of", weeklyLimit, "posts already reached">>]
    ELSE [passed |-> TRUE]

checkWeeklyLimit(existingSchedule, weeklyLimit) ==
    IF Len(existingSchedule) >= weeklyLimit
    THEN [passed |-> FALSE,
          reason |-> <<"Weekly limit of", weeklyLimit, "posts already reached">>]
    ELSE [passed |-> TRUE]

-----------------------------------------------------------------------------
(* JavaScript numbers as IEEE 754 binary64, for the operations of          *)
(* cosineSimilarity and scoreToDiversity: a number is                      *)
(* [neg, m, e], of value m * 2^e or -(m * 2^e), with m a natural number of *)
(* at most SignificandBits bits (or 2^SignificandBits).  Every operation   *)
(* rounds its exact result to the nearest number, ties to even.  The       *)
(* values met are far from overflow and underflow, which are left out.     *)

\* bits of the significand of a binary64 number
SignificandBits == 53

\* natural numbers of any size: little-endian sequences of limbs below
\* LimbBase, without leading zero limbs.  No operation on them recurses over
\* the limbs: carries and borrows are looked ahead.
LimbBase == 2^13

LimbBits == CHOOSE k \in 1..30 : 2^k = LimbBase

\* the number of bits of a limb
bitLength(n) == CHOOSE k \in 0..LimbBits : n < 2^k /\ (k = 0 \/ 2^(k - 1) <= n)

limbAt(x, i) == IF 1 <= i /\ i <= Len(x) THEN x[i] ELSE 0

\* the greatest member of a set of positive numbers, 0 for the empty set
greatestOf(S) == IF S = {} THEN 0 ELSE CHOOSE i \in S : \A j \in S : j <= i

bigTrim(x) == SubSeq(x, 1, greatestOf({i \in 1..Len(x) : x[i] # 0}))

\* a number below LimbBase^2 as a natural number of any size
bigOf(n) == bigTrim(<<n % LimbBase, n \div LimbBase>>)

bigBitLength(x) ==
    IF x = <<>> THEN 0 ELSE LimbBits * (Len(x) - 1) + bitLength(x[Len(x)])

\* -1, 0 or 1 as x is below, equal to or above y
bigCompare(x, y) ==
    IF Len(x) < Len(y) THEN -1
    ELSE IF Len(x) > Len(y) THEN 1
    ELSE LET top == greatestOf({i \in 1..Len(x) : x[i] # y[i]})
         IN  IF top = 0 THEN 0 ELSE IF x[top] < y[top] THEN -1 ELSE 1

\* x * 2^n
bigShiftLeft(x, n) ==
    LET whole == n \div LimbBits
        part == 2^(n % LimbBits)
    IN  bigTrim([i \in 1..(Len(x) + whole + 1) |->
                    ((limbAt(x, i - whole) * part) % LimbBase)
                    + ((limbAt(x, i - whole - 1) * part) \div LimbBase)])

\* floor(x / 2^n)
bigShiftRight(x, n) ==
    LET whole == n \div LimbBits
        part == 2^(n % LimbBits)
    IN  bigTrim([i \in 1..Len(x) |->
                    (limbAt(x, i + whole) \div part)
                    + ((limbAt(x, i + whole + 1) % part) * (LimbBase \div part))])

bigPow2(n) == bigShiftLeft(<<1>>, n)

\* the carry into limb i of x + y: a lower limb overflows and every limb
\* between passes the carry on
carryInto(x, y, i) ==
    \E j \in 1..(i - 1) :
        /\ limbAt(x, j) + limbAt(y, j) >= LimbBase
        /\ \A k \in (j + 1)..(i - 1) : limbAt(x, k) + limbAt(y, k) = LimbBase - 1

bigAdd(x, y) ==
    bigTrim([i \in 1..((IF Len(x) < Len(y) THEN Len(y) ELSE Len(x)) + 1) |->
                (limbAt(x, i) + limbAt(y, i)
                 + (IF carryInto(x, y, i) THEN 1 ELSE 0)) % LimbBase])

\* the borrow from limb i of x - y
borrowFrom(x, y, i) ==
    \E j \in 1..(i - 1) :
        /\ limbAt(x, j) < limbAt(y, j)
        /\ \A k \in (j + 1)..(i - 1) : limbAt(x, k) = limbAt(y, k)

\* x - y where y is at most x
bigSub(x, y) ==
    bigTrim([i \in 1..Len(x) |->
                (LimbBase + x[i] - limbAt(y, i)
                 - (IF borrowFrom(x, y, i) THEN 1 ELSE 0)) % LimbBase])

\* the sum of the products of the limbs of x and y that weigh
\* LimbBase^(k - 1): the size of the bag holding each pair of limbs as many
\* times as its product.  It is below 2^31 for x or y of at most 31 limbs.
columnOf(x, y, k) ==
    BagCardinality([i \in {j \in 1..Len(x) : x[j] * limbAt(y, k + 1 - j) > 0} |->
                       x[i] * y[k + 1 - i]])

\* x * y: each column is at most three limbs, added where they weigh
bigMul(x, y) ==
    LET columns == [k \in 1..(Len(x) + Len(y)) |-> columnOf(x, y, k)]
        low == bigTrim([k \in 1..Len(columns) |-> columns[k] % LimbBase])
        middle == bigTrim([k \in 1..Len(columns) |->
                              (columns[k] \div LimbBase) % LimbBase])
        high == bigTrim([k \in 1..Len(columns) |->
                            columns[k] \div (LimbBase * LimbBase)])
    IN  bigAdd(low, bigAdd(bigShiftLeft(middle, LimbBits),
                           bigShiftLeft(high, 2 * LimbBits)))

\* one bit of a division by d: s.q holds the bits of the quotient above b
\* and s.rem what is left of the dividend
bigDivBit(s, d, b) ==
    IF bigCompare(bigShiftLeft(d, b), s.rem) <= 0
    THEN [q |-> bigAdd(s.q, bigPow2(b)), rem |-> bigSub(s.rem, bigShiftLeft(d, b))]
    ELSE s

\* the bits hi down to lo of a division by d.  The range of bits is halved
\* at each step, the upper half being computed before the lower half starts.
RECURSIVE bigDivFrom(_, _, _, _)
bigDivFrom(s, d, hi, lo) ==
    IF hi = lo THEN bigDivBit(s, d, hi)
    ELSE CHOOSE result \in
             {bigDivFrom(upper, d, (hi + lo) \div 2, lo) :
                 upper \in {bigDivFrom(s, d, hi, (hi + lo) \div 2 + 1)}} : TRUE

\* one bit of a square root: s.r holds the bits of the root above b and
\* s.rem the number less the square of s.r
bigSqrtBit(s, b) ==
    LET t == bigAdd(bigShiftLeft(s.r, b + 1), bigPow2(2 * b))
    IN  IF bigCompare(t, s.rem) <= 0
        THEN [r |-> bigAdd(s.r, bigPow2(b)), rem |-> bigSub(s.rem, t)]
        ELSE s

\* the bits hi down to lo of a square root, halving the range as above
RECURSIVE bigSqrtFrom(_, _, _)
bigSqrtFrom(s, hi, lo) ==
    IF hi = lo THEN bigSqrtBit(s, hi)
    ELSE CHOOSE result \in
             {bigSqrtFrom(upper, (hi + lo) \div 2, lo) :
                 upper \in {bigSqrtFrom(s, hi, (hi + lo) \div 2 + 1)}} : TRUE

\* the number nearest to m * 2^e, or to a value above it by less than 2^e
\* where inexact is true and m has two bits to spare
f64round(neg, m, e, inexact) ==
    LET excess == bigBitLength(m) - SignificandBits
    IN  IF excess <= 0 THEN [neg |-> neg, m |-> m, e |-> e]
        ELSE LET q == bigShiftRight(m, excess)
                 low == bigSub(m, bigShiftLeft(q, excess))
                 c == bigCompare(low, bigPow2(excess - 1))
                 up == c > 0 \/ (c = 0 /\ (inexact \/ limbAt(q, 1) % 2 = 1))
             IN  [neg |-> neg,
                  m |-> IF up THEN bigAdd(q, <<1>>) ELSE q,
                  e |-> e + excess]

\* the number that an integer below LimbBase^2 in size is
f64(n) == [neg |-> n < 0, m |-> bigOf(IF n < 0 THEN -n ELSE n), e |-> 0]

\* -1, 0 or 1 as |x| is below, equal to or above |y|
f64compareAbs(x, y) ==
    LET e == IF x.e < y.e THEN x.e ELSE y.e
    IN  bigCompare(bigShiftLeft(x.m, x.e - e), bigShiftLeft(y.m, y.e - e))

\* x < y
f64less(x, y) ==
    IF x.m = <<>> /\ y.m = <<>> THEN FALSE
    ELSE IF x.neg # y.neg THEN x.neg
    ELSE IF x.neg THEN f64compareAbs(y, x) < 0
    ELSE f64compareAbs(x, y) < 0

\* Math.max(x, y)
f64max(x, y) == IF f64less(x, y) THEN y ELSE x

\* Math.sqrt(x) for x >= 0
f64sqrt(x) ==
    IF x.m = <<>> THEN x
    ELSE LET odd == x.e % 2 # 0
             m0 == IF odd THEN bigShiftLeft(x.m, 1) ELSE x.m
             e0 == IF odd THEN x.e - 1 ELSE x.e
             shift == 2 * ((2 * SignificandBits + 2 - bigBitLength(m0)) \div 2)
             n == bigShiftLeft(m0, shift)
             s == bigSqrtFrom([r |-> <<>>, rem |-> n], SignificandBits, 0)
         IN  f64round(FALSE, s.r, (e0 - shift) \div 2, s.rem # <<>>)

\* x * y
f64mul(x, y) ==
    IF x.m = <<>> \/ y.m = <<>> THEN [neg |-> x.neg # y.neg, m |-> <<>>, e |-> 0]
    ELSE f64round(x.neg # y.neg, bigMul(x.m, y.m), x.e + y.e, FALSE)

\* x / y for y other than 0
f64div(x, y) ==
    IF x.m = <<>> THEN x
    ELSE LET shift == SignificandBits + 2 + bigBitLength(y.m)
                          - bigBitLength(x.m)
             n == bigShiftLeft(x.m, shift)
             s == bigDivFrom([q |-> <<>>, rem |-> n], y.m,
                             SignificandBits + 3, 0)
         IN  f64round(x.neg # y.neg, s.q, x.e - y.e - shift, s.rem # <<>>)

\* x - y for x >= 0 and y >= 0
f64sub(x, y) ==
    LET e == IF x.e < y.e THEN x.e ELSE y.e
        a == bigShiftLeft(x.m, x.e - e)
        b == bigShiftLeft(y.m, y.e - e)
    IN  IF bigCompare(a, b) >= 0
        THEN f64round(FALSE, bigSub(a, b), e, FALSE)
        ELSE f64round(TRUE, bigSub(b, a), e, FALSE)

-----------------------------------------------------------------------------
(* constraints.ts: utility functions *)

\* Math.sqrt, exact on the perfect squares the modelled embeddings produce
sqrt(n) == CHOOSE k \in 0..n : k * k = n

RECURSIVE dotProduct(_, _)
dotProduct(a, b) ==
    IF a = <<>> THEN 0 ELSE Head(a) * Head(b) + dotProduct(Tail(a), Tail(b))

cosineSimilarity(a, b) ==
    IF Len(a) # Len(b) THEN R(0)
    ELSE LET denominator == sqrt(dotProduct(a, a)) * sqrt(dotProduct(b, b))
         IN  IF denominator = 0 THEN R(0)
             ELSE Frac(dotProduct(a, b), denominator)

setIntersectionSize(a, b) == Cardinality({item \in a : item \in b})

\* A title is a sequence of words <<letters, capitalised>>:
\* title.toLowerCase().split(/\s+/) as a Set
toLowerCase(word) == <<word[1], FALSE>>
titleWordSet(title) == {toLowerCase(title[i]) : i \in 1..Len(title)}

-----------------------------------------------------------------------------
(* constraints.ts: soft constraint scorers *)

\* maxSimilarity after the loop over embeddings (Null where absent)
RECURSIVE maxSimilarityOver(_, _, _)
maxSimilarityOver(embedding, others, maxSimilarity) ==
    IF others = <<>> THEN maxSimilarity
    ELSE maxSimilarityOver(embedding, Tail(others),
            IF Head(others) # Null
            THEN RMax(maxSimilarity,
                      cosineSimilarity(embedding.vector, Head(others).vector))
            ELSE maxSimilarity)

\* maxOverlap after the loop over the scheduled titles
RECURSIVE maxOverlapOver(_, _, _)
maxOverlapOver(titleWords, existingSchedule, maxOverlap) ==
    IF existingSchedule = <<>> THEN maxOverlap
    ELSE LET otherWords == titleWordSet(Head(existingSchedule).thread.post.title)
             overlap == Frac(setIntersectionSize(titleWords, otherWords),
                             Cardinality(titleWords))
         IN  maxOverlapOver(titleWords, Tail(existingSchedule),
                            RMax(maxOverlap, overlap))

scoreToDiversity(thread, existingSchedule, hist) ==
    IF Len(existingSchedule) = 0 /\ Len(hist) = 0 THEN R(1)
    ELSE LET embedding == thread.post.topicEmbedding
         IN  IF embedding # Null
             THEN LET scheduled ==
                          [i \in 1..Len(existingSchedule) |->
                              existingSchedule[i].thread.post.topicEmbedding]
                      recent == sliceLast(hist, 10)
                      posts == [i \in 1..Len(recent) |-> recent[i].topicEmbedding]
                  IN  RSub(R(1), maxSimilarityOver(embedding, posts,
                                   maxSimilarityOver(embedding, scheduled, R(0))))
             ELSE RSub(R(1), maxOverlapOver(titleWordSet(thread.post.title),
                                            existingSchedule, R(0)))

\* cosineSimilarity in binary64, for vectors of integers small enough for
\* the three sums to be exact
cosineSimilarity64(a, b) ==
    IF Len(a) # Len(b) THEN f64(0)
    ELSE LET denominator ==
                 f64mul(f64sqrt(f64(dotProduct(a, a))),
                        f64sqrt(f64(dotProduct(b, b))))
         IN  IF denominator.m = <<>> THEN f64(0)
             ELSE f64div(f64(dotProduct(a, b)), denominator)

RECURSIVE maxSimilarity64Over(_, _, _)
maxSimilarity64Over(embedding, others, maxSimilarity) ==
    IF others = <<>> THEN maxSimilarity
    ELSE maxSimilarity64Over(embedding, Tail(others),
            IF Head(others) # Null
            THEN f64max(maxSimilarity,
                        cosineSimilarity64(embedding.vector,
                                           Head(others).vector))
            ELSE maxSimilarity)

RECURSIVE maxOverlap64Over(_, _, _)
maxOverlap64Over(titleWords, existingSchedule, maxOverlap) ==
    IF existingSchedule = <<>> THEN maxOverlap
    ELSE LET otherWords == titleWordSet(Head(existingSchedule).thread.post.title)
             overlap == f64div(f64(setIntersectionSize(titleWords, otherWords)),
                               f64(Cardinality(titleWords)))
         IN  maxOverlap64Over(titleWords, Tail(existingSchedule),
                              f64max(maxOverlap, overlap))

\* scoreToDiversity in binary64
scoreToDiversity64(thread, existingSchedule, hist) ==
    IF Len(existingSchedule) = 0 /\ Len(hist) = 0 THEN f64(1)
    ELSE LET embedding == thread.post.topicEmbedding
         IN  IF embedding # Null
             THEN LET scheduled ==
                          [i \in 1..Len(existingSchedule) |->
                              existingSchedule[i].thread.post.topicEmbedding]
                      recent == sliceLast(hist, 10)
                      posts == [i \in 1..Len(recent) |-> recent[i].topicEmbedding]
                  IN  f64sub(f64(1),
                             maxSimilarity64Over(embedding, posts,
                                 maxSimilarity64Over(embedding, scheduled,
                                                     f64(0))))
             ELSE f64sub(f64(1),
                         maxOverlap64Over(titleWordSet(thread.post.title),
                                          existingSchedule, f64(0)))

\* the Set threadPersonas
threadPersonasOf(thread) ==
    {thread.post.opPersonaId}
        \cup {thread.comments[i].personaId : i \in 1..Len(thread.comments)}

RECURSIVE sumUsage(_, _)
sumUsage(personas, usageCounts) ==
    IF personas = {} THEN 0
    ELSE LET p == CHOOSE q \in personas : TRUE
         IN  getOrZero(usageCounts, p) + sumUsage(personas \ {p}, usageCounts)

\* twice the usage the in-progress schedule adds: 1 per OP, 0.5 per comment
RECURSIVE scheduleUsageDoubled(_, _)
scheduleUsageDoubled(threadPersonas, existingSchedule) ==
    IF existingSchedule = <<>> THEN 0
    ELSE LET scheduled == Head(existingSchedule)
             op == IF scheduled.thread.post.opPersonaId \in threadPersonas
                   THEN 2 ELSE 0
             comments ==
                 Cardinality({i \in 1..Len(scheduled.thread.comments) :
                     scheduled.thread.comments[i].personaId \in threadPersonas})
         IN  op + comments
             + scheduleUsageDoubled(threadPersonas, Tail(existingSchedule))

\* totalUsage of scorePersonaDistribution, as a rational
totalUsageOf(thread, existingSchedule, usageCounts) ==
    LET threadPersonas == threadPersonasOf(thread)
    IN  RAdd(R(sumUsage(threadPersonas, usageCounts)),
             Frac(scheduleUsageDoubled(threadPersonas, existingSchedule), 2))

scorePersonaDistribution(thread, existingSchedule, usageCounts) ==
    LET totalUsage == totalUsageOf(thread, existingSchedule, usageCounts)
        avgUsage == RDiv(totalUsage, R(Cardinality(threadPersonasOf(thread))))
    IN  RMax(R(0), RSub(R(1), RDiv(avgUsage, R(10))))

RECURSIVE totalUrgencyOf(_, _)
totalUrgencyOf(targetKeywords, urgencies) ==
    IF targetKeywords = <<>> THEN R(0)
    ELSE RAdd(getOrHalf(urgencies, Head(targetKeywords)),
              totalUrgencyOf(Tail(targetKeywords), urgencies))

scoreKeywordCoverage(thread, usedKeywordsThisWeek, urgencies) ==
    LET targetKeywords == thread.post.targetKeywords
        novelKeywords ==
            Cardinality({i \in 1..Len(targetKeywords) :
                            targetKeywords[i] \notin usedKeywordsThisWeek})
        avgUrgency == RDiv(totalUrgencyOf(targetKeywords, urgencies),
                           R(Len(targetKeywords)))
        noveltyRatio == Frac(novelKeywords, Len(targetKeywords))
    IN  IF Len(targetKeywords) = 0 THEN Frac(1, 2)
        ELSE RAdd(RMul(avgUrgency, Frac(6, 10)), RMul(noveltyRatio, Frac(4, 10)))

-----------------------------------------------------------------------------
(* constraints.ts: combined constraint check *)

usedKeywordsOf(existingSchedule) ==
    UNION {Range(existingSchedule[i].thread.post.targetKeywords) :
              i \in 1..Len(existingSchedule)}

\* checkAllConstraints with passed also asking for topicDiversity >= 0.3
checkAllConstraintsSoftBlocks(thread, slot, existingSchedule, hist, weeklyLimit, usageCounts, urgencies) ==
    LET usedKeywordsThisWeek == usedKeywordsOf(existingSchedule)
        subredditCheck ==
            checkSubredditFrequency(thread, existingSchedule, hist, slot)
        personaCheck == checkPersonaSelfReply(thread)
        limitCheck == checkWeeklyLimit(existingSchedule, weeklyLimit)
        topicDiversity == scoreToDiversity(thread, existingSchedule, hist)
        personaDistribution ==
            scorePersonaDistribution(thread, existingSchedule, usageCounts)
        keywordCoverage ==
            scoreKeywordCoverage(thread, usedKeywordsThisWeek, urgencies)
        warnings ==
            (IF ~subredditCheck.passed THEN <<subredditCheck.reason>> ELSE <<>>)
            \o (IF ~personaCheck.passed THEN <<personaCheck.reason>> ELSE <<>>)
            \o (IF ~limitCheck.passed THEN <<limitCheck.reason>> ELSE <<>>)
            \o (IF RLt(topicDiversity, Frac(3, 10))
                THEN <<<<"Topic is very similar to recent posts">>>> ELSE <<>>)
            \o (IF RLt(personaDistribution, Frac(3, 10))
                THEN <<<<"Personas are being overused">>>> ELSE <<>>)
            \o (IF RLt(keywordCoverage, Frac(3, 10))
                THEN <<<<"Keywords have been used recently">>>> ELSE <<>>)
    IN  [passed |-> subredditCheck.passed /\ personaCheck.passed
                        /\ limitCheck.passed
                        /\ ~RLt(topicDiversity, Frac(3, 10)),
         hardConstraints |->
             [subredditFrequency |-> subredditCheck.passed,
              personaNoSelfReply |-> personaCheck.passed,
              weeklyLimit |-> limitCheck.passed],
         softConstraints |->
             [topicDiversity |-> topicDiversity,
              personaDistribution |-> personaDistribution,
              keywordCoverage |-> keywordCoverage],
         warnings |-> warnings]

checkAllConstraints(thread, slot, existingSchedule, hist, weeklyLimit, usageCounts, urgencies) ==
    LET usedKeywordsThisWeek == usedKeywordsOf(existingSchedule)
        subredditCheck ==
            checkSubredditFrequency(thread, existingSchedule, hist, slot)
        personaCheck == checkPersonaSelfReply(thread)
        limitCheck == checkWeeklyLimit(existingSchedule, weeklyLimit)
        topicDiversity == scoreToDiversity(thread, existingSchedule, hist)
        personaDistribution ==
            scorePersonaDistribution(thread, existingSchedule, usageCounts)
        keywordCoverage ==
            scoreKeywordCoverage(thread, usedKeywordsThisWeek, urgencies)
        warnings ==
            (IF ~subredditCheck.passed THEN <<subredditCheck.reason>> ELSE <<>>)
            \o (IF ~personaCheck.passed THEN <<personaCheck.reason>> ELSE <<>>)
            \o (IF ~limitCheck.passed THEN <<limitCheck.reason>> ELSE <<>>)
            \o (IF RLt(topicDiversity, Frac(3, 10))
                THEN <<<<"Topic is very similar to recent posts">>>> ELSE <<>>)
            \o (IF RLt(personaDistribution, Frac(3, 10))
                THEN <<<<"Personas are being overused">>>> ELSE <<>>)
            \o (IF RLt(keywordCoverage, Frac(3, 10))
                THEN <<<<"Keywords have been used recently">>>> ELSE <<>>)
    IN  [passed |-> subredditCheck.passed /\ personaCheck.passed
                        /\ limitCheck.passed,
         hardConstraints |->
             [subredditFrequency |-> subredditCheck.passed,
              personaNoSelfReply |-> personaCheck.passed,
              weeklyLimit |-> limitCheck.passed],
         softConstraints |->
             [topicDiversity |-> topicDiversity,
              personaDistribution |-> personaDistribution,
              keywordCoverage |-> keywordCoverage],
         warnings |-> warnings]

-----------------------------------------------------------------------------
(* SchedulerService.scoreThread *)

RECURSIVE sumSubtlety(_)
sumSubtlety(mentions) ==
    IF mentions = <<>> THEN R(0)
    ELSE RAdd(Head(mentions).subtletyScore, sumSubtlety(Tail(mentions)))

scoreThread(thread, urgencies) ==
    LET targetKeywords == thread.post.targetKeywords
        base == RMul(Frac(thread.estimatedEngagement, 100), Frac(3, 10))
        urgency == totalUrgencyOf(targetKeywords, urgencies)
        keywordPart ==
            IF Len(targetKeywords) > 0
            THEN RMul(RDiv(urgency, R(Len(targetKeywords))), Frac(4, 10))
            ELSE R(0)
        commentScore == RMin(R(1), Frac(Len(thread.comments), 4))
        mentions == SelectSeq(thread.comments, LAMBDA c : c.mentionsProduct)
        subtletyPart ==
            IF Len(mentions) > 0
            THEN RMul(RDiv(sumSubtlety(mentions), R(Len(mentions))),
                      Frac(15, 100))
            ELSE R(0)
    IN  RAdd(RAdd(RAdd(base, keywordPart), RMul(commentScore, Frac(15, 100))),
             subtletyPart)

-----------------------------------------------------------------------------
(* SchedulerService.scheduleThreads: the steps of one run *)

\* `${Date.now()}_${Math.random().toString(36).slice(2, 8)}` of two runs
FirstIdSuffix == "1736150400000_k3x9ab"

IdSuffixChoices == {FirstIdSuffix, "1736150460000_p0q7zm"}

\* Array.prototype.sort((a, b) => b.score - a.score): stable, descending
RECURSIVE insertByScore(_, _)
insertByScore(sorted, x) ==
    IF sorted = <<>> THEN <<x>>
    ELSE IF RLt(Head(sorted).score, x.score) THEN <<x>> \o sorted
    ELSE <<Head(sorted)>> \o insertByScore(Tail(sorted), x)

RECURSIVE sortByScore(_)
sortByScore(seq) ==
    IF seq = <<>> THEN <<>>
    ELSE insertByScore(sortByScore(SubSeq(seq, 1, Len(seq) - 1)), seq[Len(seq)])

\* constraints.softConstraints folded into combinedScore
combinedScoreOf(score, constraints) ==
    LET soft == constraints.softConstraints
        softScore ==
            RAdd(RAdd(RMul(soft.topicDiversity, Frac(4, 10)),
                      RMul(soft.personaDistribution, Frac(3, 10))),
                 RMul(soft.keywordCoverage, Frac(3, 10)))
    IN  RAdd(RMul(score, Frac(6, 10)), RMul(softScore, Frac(4, 10)))

\* bestFitFrom without "if (!constraints.passed) continue"
RECURSIVE bestFitFromIgnoringPassed(_, _, _, _, _, _, _, _, _, _)
bestFitFromIgnoringPassed(scored, i, slot, sched, hist, weeklyLimit, used, usageCounts, urgencies, best) ==
    IF i > Len(scored) THEN best.fit
    ELSE LET thread == scored[i].thread
             constraints ==
                 checkAllConstraints(thread, slot, sched, hist, weeklyLimit,
                                     usageCounts, urgencies)
             combinedScore == combinedScoreOf(scored[i].score, constraints)
             next ==
                 IF thread.id \in used THEN best
                 ELSE IF RLt(best.score, combinedScore)
                 THEN [fit |-> thread, score |-> combinedScore]
                 ELSE best
         IN  bestFitFromIgnoringPassed(scored, i + 1, slot, sched, hist,
                                       weeklyLimit, used, usageCounts,
                                       urgencies, next)

\* bestFitFrom with "combinedScore >= bestScore": of the threads with the
\* greatest combined score the last one is kept
RECURSIVE bestFitFromLastOfEquals(_, _, _, _, _, _, _, _, _, _)
bestFitFromLastOfEquals(scored, i, slot, sched, hist, weeklyLimit, used, usageCounts, urgencies, best) ==
    IF i > Len(scored) THEN best.fit
    ELSE LET thread == scored[i].thread
             constraints ==
                 checkAllConstraints(thread, slot, sched, hist, weeklyLimit,
                                     usageCounts, urgencies)
             combinedScore == combinedScoreOf(scored[i].score, constraints)
             next ==
                 IF thread.id \in used THEN best
                 ELSE IF ~constraints.passed THEN best
                 ELSE IF RLe(best.score, combinedScore)
                 THEN [fit |-> thread, score |-> combinedScore]
                 ELSE best
         IN  bestFitFromLastOfEquals(scored, i + 1, slot, sched, hist,
                                     weeklyLimit, used, usageCounts, urgencies,
                                     next)

\* the inner loop over scoredThreads from index i: the final bestFit
RECURSIVE bestFitFrom(_, _, _, _, _, _, _, _, _, _)
bestFitFrom(scored, i, slot, sched, hist, weeklyLimit, used, usageCounts, urgencies, best) ==
    IF i > Len(scored) THEN best.fit
    ELSE LET thread == scored[i].thread
             constraints ==
                 checkAllConstraints(thread, slot, sched, hist, weeklyLimit,
                                     usageCounts, urgencies)
             combinedScore == combinedScoreOf(scored[i].score, constraints)
             next ==
                 IF thread.id \in used THEN best
                 ELSE IF ~constraints.passed THEN best
                 ELSE IF RLt(best.score, combinedScore)
                 THEN [fit |-> thread, score |-> combinedScore]
                 ELSE best
         IN  bestFitFrom(scored, i + 1, slot, sched, hist, weeklyLimit, used,
                         usageCounts, urgencies, next)

bestFitFor(slot) ==
    bestFitFrom(scoredThreads, 1, slot, schedule, history,
                campaign.postsPerWeek, usedThreads, personaUsageCounts,
                keywordUrgencies, [fit |-> Null, score |-> R(-1)])

\* the ScheduledThread pushed for a thread and a slot; of its generated id,
\* sched_<Date.now()>_<random>, the clock reading and the random letters are
\* the run's idSuffix and a number tells the entries of one run apart
scheduledOf(thread, slot) ==
    [id |-> <<"sched", idSuffix, Len(schedule) + 1>>,
     thread |-> thread,
     slot |-> slot,
     status |-> "draft",
     constraintsSatisfied |->
         checkAllConstraints(thread, slot, schedule, history,
                             campaign.postsPerWeek, personaUsageCounts,
                             keywordUrgencies)]

\* personaUsageCounts.set(op, (personaUsageCounts.get(op) || 0) + 1)
bumpUsage(usageCounts, op) ==
    [p \in DOMAIN usageCounts \cup {op} |->
        IF p = op THEN getOrZero(usageCounts, op) + 1 ELSE usageCounts[p]]

\* commit with schedule.unshift(scheduled) in place of schedule.push
commitUnshift(thread, slot, pass, slotIndex) ==
    /\ schedule' = <<scheduledOf(thread, slot)>> \o schedule
    /\ usedThreads' = usedThreads \cup {thread.id}
    /\ personaUsageCounts' = bumpUsage(personaUsageCounts, thread.post.opPersonaId)
    /\ placed' = <<[pass |-> pass, slotIndex |-> slotIndex]>> \o placed

\* commit that also re-evaluates the constraints of the entries before it
commitRevalidating(thread, slot, pass, slotIndex) ==
    /\ schedule' =
          Append([i \in 1..Len(schedule) |->
                     [schedule[i] EXCEPT !.constraintsSatisfied =
                         checkAllConstraints(schedule[i].thread,
                             schedule[i].slot,
                             Append(SubSeq(schedule, 1, i - 1),
                                    scheduledOf(thread, slot)),
                             history, campaign.postsPerWeek,
                             personaUsageCounts, keywordUrgencies)]],
                 scheduledOf(thread, slot))
    /\ usedThreads' = usedThreads \cup {thread.id}
    /\ personaUsageCounts' = bumpUsage(personaUsageCounts, thread.post.opPersonaId)
    /\ placed' = Append(placed, [pass |-> pass, slotIndex |-> slotIndex])

\* schedule.push(scheduled); usedThreads.add(id); personaUsageCounts.set(...)
commit(thread, slot, pass, slotIndex) ==
    /\ schedule' = Append(schedule, scheduledOf(thread, slot))
    /\ usedThreads' = usedThreads \cup {thread.id}
    /\ personaUsageCounts' = bumpUsage(personaUsageCounts, thread.post.opPersonaId)
    /\ placed' = Append(placed, [pass |-> pass, slotIndex |-> slotIndex])

\* indexes in slots of the slots the primary pass left unfilled, in order
unfilledIndexes(pl, n) ==
    SelectSeq([i \in 1..n |-> i],
              LAMBDA i : \A j \in 1..Len(pl) :
                            ~(pl[j].pass = "primary" /\ pl[j].slotIndex = i))

\* StartScheduling with usedThreads a field of the service: a set that a
\* run does not create but goes on filling
StartSchedulingKeepingUsedThreads ==
    /\ pc = "start"
    /\ schedule' = <<>>
    /\ slots' = generateTimeSlots(campaign.weekStartDate, campaign.postsPerWeek)
    /\ personaUsageCounts' = [p \in campaign.personas |-> personaUsage[p]]
    /\ keywordUrgencies' = [k \in campaign.keywords |-> keywordUrgency[k]]
    /\ scoredThreads' =
          sortByScore([i \in 1..Len(threads) |->
              [thread |-> threads[i],
               score |-> scoreThread(threads[i], keywordUrgencies')]])
    /\ unfilledSlots' = <<>>
    /\ remainingThreads' = <<>>
    /\ slotIdx' = 0
    /\ placed' = <<>>
    /\ pc' = "primary"
    /\ UNCHANGED <<callerVars, call, ret, threads, campaign, history,
                   personaUsage, keywordUrgency, usedThreads>>

\* StartScheduling sorting the threads argument in place, by score, where
\* the code sorts the array that threads.map returned
StartSchedulingSortingThreads ==
    /\ pc = "start"
    /\ schedule' = <<>>
    /\ slots' = generateTimeSlots(campaign.weekStartDate, campaign.postsPerWeek)
    /\ personaUsageCounts' = [p \in campaign.personas |-> personaUsage[p]]
    /\ keywordUrgencies' = [k \in campaign.keywords |-> keywordUrgency[k]]
    /\ scoredThreads' =
          sortByScore([i \in 1..Len(threads) |->
              [thread |-> threads[i],
               score |-> scoreThread(threads[i], keywordUrgencies')]])
    /\ threads' = [i \in 1..Len(threads) |-> scoredThreads'[i].thread]
    /\ usedThreads' = {}
    /\ unfilledSlots' = <<>>
    /\ remainingThreads' = <<>>
    /\ slotIdx' = 0
    /\ placed' = <<>>
    /\ pc' = "primary"
    /\ UNCHANGED <<callerVars, call, ret, campaign, history, personaUsage,
                   keywordUrgency>>

\* the declarations up to the first loop: schedule, slots, history, the two
\* maps, scoredThreads (a new array, sorted), usedThreads, unfilledSlots
StartScheduling ==
    /\ pc = "start"
    /\ schedule' = <<>>
    /\ slots' = generateTimeSlots(campaign.weekStartDate, campaign.postsPerWeek)
    /\ personaUsageCounts' = [p \in campaign.personas |-> personaUsage[p]]
    /\ keywordUrgencies' = [k \in campaign.keywords |-> keywordUrgency[k]]
    /\ scoredThreads' =
          sortByScore([i \in 1..Len(threads) |->
              [thread |-> threads[i],
               score |-> scoreThread(threads[i], keywordUrgencies')]])
    /\ usedThreads' = {}
    /\ unfilledSlots' = <<>>
    /\ remainingThreads' = <<>>
    /\ slotIdx' = 0
    /\ placed' = <<>>
    /\ pc' = "primary"
    /\ UNCHANGED <<callerVars, call, ret, threads, campaign, history,
                   personaUsage, keywordUrgency>>

PrimaryCommit ==
    /\ pc = "primary"
    /\ slotIdx < Len(slots)
    /\ LET slot == slots[slotIdx + 1]
           bestFit == bestFitFor(slot)
       IN  /\ bestFit # Null
           /\ commit(bestFit, slot, "primary", slotIdx + 1)
    /\ slotIdx' = slotIdx + 1
    /\ UNCHANGED <<pc, callerVars, call, ret, threads, campaign, history,
                   personaUsage,
                   keywordUrgency, slots, scoredThreads, unfilledSlots,
                   remainingThreads, keywordUrgencies>>

PrimaryLeaveUnfilled ==
    /\ pc = "primary"
    /\ slotIdx < Len(slots)
    /\ bestFitFor(slots[slotIdx + 1]) = Null
    /\ unfilledSlots' = Append(unfilledSlots, slots[slotIdx + 1])
    /\ slotIdx' = slotIdx + 1
    /\ UNCHANGED <<pc, callerVars, call, ret, threads, campaign, history,
                   personaUsage,
                   keywordUrgency, slots, scoredThreads, schedule, usedThreads,
                   remainingThreads, personaUsageCounts, keywordUrgencies,
                   placed>>

\* EnterFallback with the filter keeping the used threads
EnterFallbackKeepingUsed ==
    /\ pc = "primary"
    /\ slotIdx = Len(slots)
    /\ Len(unfilledSlots) > 0
    /\ remainingThreads' =
          sortByScore(SelectSeq(scoredThreads,
                                LAMBDA st : st.thread.id \in usedThreads))
    /\ pc' = "fallback"
    /\ slotIdx' = 0
    /\ UNCHANGED <<callerVars, call, ret, threads, campaign, history,
                   personaUsage,
                   keywordUrgency, slots, scoredThreads, schedule, usedThreads,
                   unfilledSlots, personaUsageCounts, keywordUrgencies, placed>>

EnterFallback ==
    /\ pc = "primary"
    /\ slotIdx = Len(slots)
    /\ Len(unfilledSlots) > 0
    /\ remainingThreads' =
          sortByScore(SelectSeq(scoredThreads,
                                LAMBDA st : st.thread.id \notin usedThreads))
    /\ pc' = "fallback"
    /\ slotIdx' = 0
    /\ UNCHANGED <<callerVars, call, ret, threads, campaign, history,
                   personaUsage,
                   keywordUrgency, slots, scoredThreads, schedule, usedThreads,
                   unfilledSlots, personaUsageCounts, keywordUrgencies, placed>>

\* FallbackCommit with remainingThreads.pop() in place of shift()
FallbackCommitPop ==
    /\ pc = "fallback"
    /\ slotIdx < Len(unfilledSlots)
    /\ Len(remainingThreads) # 0
    /\ commit(remainingThreads[Len(remainingThreads)].thread,
              unfilledSlots[slotIdx + 1], "fallback",
              unfilledIndexes(placed, Len(slots))[slotIdx + 1])
    /\ remainingThreads' = SubSeq(remainingThreads, 1, Len(remainingThreads) - 1)
    /\ slotIdx' = slotIdx + 1
    /\ UNCHANGED <<pc, callerVars, call, ret, threads, campaign, history,
                   personaUsage,
                   keywordUrgency, slots, scoredThreads, unfilledSlots,
                   keywordUrgencies>>

FallbackCommit ==
    /\ pc = "fallback"
    /\ slotIdx < Len(unfilledSlots)
    /\ Len(remainingThreads) # 0
    /\ commit(Head(remainingThreads).thread, unfilledSlots[slotIdx + 1],
              "fallback", unfilledIndexes(placed, Len(slots))[slotIdx + 1])
    /\ remainingThreads' = Tail(remainingThreads)
    /\ slotIdx' = slotIdx + 1
    /\ UNCHANGED <<pc, callerVars, call, ret, threads, campaign, history,
                   personaUsage,
                   keywordUrgency, slots, scoredThreads, unfilledSlots,
                   keywordUrgencies>>

FallbackNoThread ==
    /\ pc = "fallback"
    /\ slotIdx < Len(unfilledSlots)
    /\ Len(remainingThreads) = 0
    /\ slotIdx' = slotIdx + 1
    /\ UNCHANGED <<pc, callerVars, call, ret, threads, campaign, history,
                   personaUsage,
                   keywordUrgency, slots, scoredThreads, schedule, usedThreads,
                   unfilledSlots, remainingThreads, personaUsageCounts,
                   keywordUrgencies, placed>>

ReturnAfterPrimary ==
    /\ pc = "primary"
    /\ slotIdx = Len(slots)
    /\ Len(unfilledSlots) = 0
    /\ pc' = "done"
    /\ ret' = schedule
    /\ UNCHANGED <<call, schedVars>>

ReturnAfterFallback ==
    /\ pc = "fallback"
    /\ slotIdx = Len(unfilledSlots)
    /\ pc' = "done"
    /\ ret' = schedule
    /\ UNCHANGED <<call, schedVars>>

-----------------------------------------------------------------------------
(* SchedulerService.buildCalendar *)

\* Math.round: the nearest integer, halves rounded up
mathRound(x) == (2 * x[1] + x[2]) \div (2 * x[2])

\* record[key] = (record[key] || 0) + amount, on a Record<string, number>
addTo(record, key, amount) ==
    [k \in DOMAIN record \cup {key} |->
        IF k = key
        THEN RAdd(IF key \in DOMAIN record THEN record[key] ELSE R(0), amount)
        ELSE record[k]]

\* the inner loop over entry.thread.comments
RECURSIVE addComments(_, _)
addComments(usage, comments) ==
    IF comments = <<>> THEN usage
    ELSE addComments(addTo(usage, Head(comments).personaId, Frac(1, 2)),
                     Tail(comments))

\* tallyEntry with a comment counted like a post
tallyEntryWholeComments(tally, entry) ==
    LET post == entry.thread.post
        comments == entry.thread.comments
    IN  [subredditDistribution |->
             addTo(tally.subredditDistribution, post.subreddit, R(1)),
         personaUsage |->
             addComments(addComments(addTo(tally.personaUsage,
                                           post.opPersonaId, R(1)),
                                     comments), comments),
         keywordsCovered |-> tally.keywordsCovered \o post.targetKeywords]

\* the body of the first loop over the schedule
tallyEntry(tally, entry) ==
    LET post == entry.thread.post
    IN  [subredditDistribution |->
             addTo(tally.subredditDistribution, post.subreddit, R(1)),
         personaUsage |->
             addComments(addTo(tally.personaUsage, post.opPersonaId, R(1)),
                         entry.thread.comments),
         keywordsCovered |-> tally.keywordsCovered \o post.targetKeywords]

RECURSIVE tallyOf(_, _)
tallyOf(sched, tally) ==
    IF sched = <<>> THEN tally
    ELSE tallyOf(Tail(sched), tallyEntry(tally, Head(sched)))

\* [...new Set(array)]: the first occurrence of every element, in order
RECURSIVE dedupe(_)
dedupe(array) ==
    IF array = <<>> THEN <<>>
    ELSE LET front == dedupe(SubSeq(array, 1, Len(array) - 1))
             last == array[Len(array)]
         IN  IF last \in Range(front) THEN front ELSE Append(front, last)

\* totalQuality after the second loop over the schedule
RECURSIVE totalQualityOf(_)
totalQualityOf(sched) ==
    IF sched = <<>> THEN R(0)
    ELSE LET c == Head(sched).constraintsSatisfied.softConstraints
         IN  RAdd(RDiv(RAdd(RAdd(c.topicDiversity, c.personaDistribution),
                            c.keywordCoverage), R(3)),
                  totalQualityOf(Tail(sched)))

\* qualityScoreOf with the three soft scores of an entry added up, not averaged
qualityScoreOfSum(sched) ==
    IF Len(sched) > 0
    THEN mathRound(RMul(RDiv(RMul(totalQualityOf(sched), R(3)),
                             R(Len(sched))), R(100)))
    ELSE 0

qualityScoreOf(sched) ==
    IF Len(sched) > 0
    THEN mathRound(RMul(RDiv(totalQualityOf(sched), R(Len(sched))), R(100)))
    ELSE 0

max(a, b) == IF a > b THEN a ELSE b

diversityScoreOf(sched, camp, tally) ==
    LET uniqueSubreddits == Cardinality(DOMAIN tally.subredditDistribution)
        uniquePersonas == Cardinality(DOMAIN tally.personaUsage)
        uniqueKeywords == Cardinality(Range(tally.keywordsCovered))
    IN  mathRound(RMul(
            RAdd(RAdd(RMul(Frac(uniqueSubreddits, max(Len(sched), 1)),
                           Frac(3, 10)),
                      RMul(Frac(uniquePersonas,
                                max(Cardinality(camp.personas), 1)),
                           Frac(4, 10))),
                 RMul(Frac(uniqueKeywords, max(Cardinality(camp.keywords), 1)),
                      Frac(3, 10))),
            R(100)))

\* the ContentCalendar built (its id cal_<Date.now()>_<random> and the
\* createdAt and updatedAt timestamps are left out)
buildCalendar(sched, camp, campaignId) ==
    LET weekEnd == camp.weekStartDate + 7 * 24
        tally == tallyOf(sched, [subredditDistribution |-> <<>>,
                                 personaUsage |-> <<>>,
                                 keywordsCovered |-> <<>>])
    IN  [weekStartDate |-> camp.weekStartDate,
         weekEndDate |-> weekEnd,
         campaignId |-> campaignId,
         entries |-> sched,
         metadata |->
             [totalPosts |-> Len(sched),
              subredditDistribution |-> tally.subredditDistribution,
              personaUsage |-> tally.personaUsage,
              keywordsCovered |-> dedupe(tally.keywordsCovered),
              qualityScore |-> qualityScoreOf(sched),
              diversityScore |-> diversityScoreOf(sched, camp, tally)],
         status |-> "ready"]

-----------------------------------------------------------------------------
(* SchedulerService.getNextWeekStart and CalendarCronService.getNextMonday *)

\* new Date(d); setDate(getDate() + days); setHours(0, 0, 0, 0)
midnightAfter(date, days) == ((date \div 24) + days) * 24

\* getNextWeekStart with (8 - dayOfWeek) % 7 days until Monday
getNextWeekStartSameMonday(lastCalendar, now) ==
    IF lastCalendar = Null
    THEN LET dayOfWeek == getDay(now)
             daysUntilMonday == (8 - dayOfWeek) % 7
         IN  midnightAfter(now, daysUntilMonday)
    ELSE midnightAfter(lastCalendar.weekEndDate, 1)

\* now is the reading of new Date()
getNextWeekStart(lastCalendar, now) ==
    IF lastCalendar = Null
    THEN LET dayOfWeek == getDay(now)
             daysUntilMonday == IF dayOfWeek = 0 THEN 1 ELSE 8 - dayOfWeek
         IN  midnightAfter(now, daysUntilMonday)
    ELSE midnightAfter(lastCalendar.weekEndDate, 1)

\* today is the reading of new Date(); x || 7 is 7 where x is 0
getNextMonday(today) ==
    LET dayOfWeek == getDay(today)
        daysUntilMonday ==
            IF dayOfWeek = 0 THEN 1
            ELSE IF (8 - dayOfWeek) % 7 # 0 THEN (8 - dayOfWeek) % 7 ELSE 7
    IN  midnightAfter(today, daysUntilMonday)

-----------------------------------------------------------------------------
(* Inputs of the explored runs *)

PersonaIds == {"riley_ops", "jordan_consults", "emily_econ"}
KeywordIds == {"K1", "K2"}

Comment(id, personaId, replyTo, mentionsProduct, subtletyScore) ==
    [id |-> id, personaId |-> personaId, replyTo |-> replyTo,
     mentionsProduct |-> mentionsProduct, subtletyScore |-> subtletyScore]

Thread(id, subreddit, title, targetKeywords, opPersonaId, topicEmbedding, comments, estimatedEngagement) ==
    [id |-> id,
     post |-> [subreddit |-> subreddit, title |-> title,
               targetKeywords |-> targetKeywords, opPersonaId |-> opPersonaId,
               topicEmbedding |-> topicEmbedding],
     comments |-> comments,
     estimatedEngagement |-> estimatedEngagement]

\* passes checkPersonaSelfReply; has an embedding
ThreadA ==
    Thread("thread_1", "r/PowerPoint",
           <<<<"best", FALSE>>, <<"slide", FALSE>>, <<"tools", FALSE>>>>,
           <<"K1">>, "riley_ops", Embedding(<<3, 4>>),
           <<Comment("c1", "jordan_consults", "root", TRUE, Frac(8, 10))>>, 70)

\* passes; same subreddit as ThreadA, no embedding
ThreadB ==
    Thread("thread_2", "r/PowerPoint",
           <<<<"slide", TRUE>>, <<"tips", FALSE>>>>,
           <<"K1", "K2">>, "jordan_consults", Null,
           <<Comment("c1", "riley_ops", "root", FALSE, Frac(5, 10)),
             Comment("c2", "emily_econ", "c1", TRUE, Frac(6, 10))>>, 80)

\* passes; other subreddit, no comments
ThreadC ==
    Thread("thread_3", "r/Canva",
           <<<<"canva", TRUE>>, <<"tips", FALSE>>>>,
           <<"K2">>, "emily_econ", Embedding(<<4, 3>>), <<>>, 60)

\* fails checkPersonaSelfReply: consecutive comments by one persona
ThreadD ==
    Thread("thread_4", "r/Canva",
           <<<<"deck", FALSE>>, <<"review", FALSE>>>>,
           <<"K1">>, "emily_econ", Embedding(<<3, 4>>),
           <<Comment("c1", "riley_ops", "root", FALSE, Frac(5, 10)),
             Comment("c2", "riley_ops", "root", FALSE, Frac(5, 10))>>, 90)

ThreadChoices == {ThreadA, ThreadB, ThreadC, ThreadD}

\* every threads argument of at most MaxThreads threads; a thread (and so a
\* thread id) may be handed in more than once
ThreadLists == UNION {[1..n -> ThreadChoices] : n \in 0..MaxThreads}

\* Monday 2025-01-06 00:00 and Wednesday 2025-01-08 13:00
SchedWeekStartChoices == {Monday20250106, 3 * 24 + 13}

CampaignChoices ==
    {[postsPerWeek |-> n, weekStartDate |-> w, personas |-> PersonaIds,
      keywords |-> KeywordIds] :
        n \in 1..MaxPostsPerWeek, w \in SchedWeekStartChoices}

\* what the persistence service returns at the start of a run
PersistenceChoices ==
    {[history |-> <<>>,
      personaUsage |-> [p \in PersonaIds |-> 0],
      keywordUrgency |-> [k \in KeywordIds |-> R(1)]],
     \* r/PowerPoint was posted to on Sunday 2025-01-05 20:00
     [history |-> <<[subreddit |-> "r/PowerPoint", postedAt |-> 20,
                     topicEmbedding |-> Embedding(<<3, 4>>)]>>,
      personaUsage |-> [p \in PersonaIds |->
                           IF p = "riley_ops" THEN 3 ELSE 0],
      keywordUrgency |-> [k \in KeywordIds |->
                             IF k = "K1" THEN Frac(1, 2) ELSE R(1)]],
     [history |-> <<>>,
      personaUsage |-> [p \in PersonaIds |->
                           IF p = "riley_ops" THEN 12 ELSE 1],
      keywordUrgency |-> [k \in KeywordIds |->
                             IF k = "K1" THEN R(0) ELSE Frac(1, 14)]]}

-----------------------------------------------------------------------------
(* Specification of scheduleThreads *)

Init ==
    /\ pc = "start"
    /\ call = None
    /\ ret = None
    /\ threads \in ThreadLists
    /\ campaign \in CampaignChoices
    /\ \E p \in PersistenceChoices :
          /\ history = p.history
          /\ personaUsage = p.personaUsage
          /\ keywordUrgency = p.keywordUrgency
    /\ slots = <<>>
    /\ scoredThreads = <<>>
    /\ slotIdx = 0
    /\ schedule = <<>>
    /\ usedThreads = {}
    /\ unfilledSlots = <<>>
    /\ remainingThreads = <<>>
    /\ personaUsageCounts = None
    /\ keywordUrgencies = None
    /\ placed = <<>>
    /\ idSuffix = FirstIdSuffix
    /\ gen = None
    /\ calendars = <<>>

Next ==
    \/ StartScheduling
    \/ PrimaryCommit
    \/ PrimaryLeaveUnfilled
    \/ EnterFallback
    \/ FallbackCommit
    \/ FallbackNoThread
    \/ ReturnAfterPrimary
    \/ ReturnAfterFallback

Spec == Init /\ [][Next]_vars

-----------------------------------------------------------------------------
(* Properties of scheduleThreads *)

Min(a, b) == IF a < b THEN a ELSE b

Entries == 1..Len(schedule)

sameSubreddit(i, j) ==
    schedule[i].thread.post.subreddit = schedule[j].thread.post.subreddit

hoursApart(i, j) == Abs(schedule[i].slot.date - schedule[j].slot.date)

distinctThreadIds ==
    \A i, j \in 1..Len(threads) : i # j => threads[i].id # threads[j].id

\* C1: the returned schedule never contains two entries with the same
\* thread.id, whatever list of threads was handed in.
C1_NoThreadIdTwice ==
    pc = "done" =>
        \A i, j \in 1..Len(ret) : i # j => ret[i].thread.id # ret[j].thread.id

C4_PrimarySameSubreddit48h ==
    \A i, j \in Entries :
        (/\ i # j
         /\ placed[i].pass = "primary"
         /\ placed[j].pass = "primary"
         /\ sameSubreddit(i, j)) => hoursApart(i, j) >= 48

\* a returned schedule with two primary-pass entries in one subreddit
C4_Witness ==
    /\ pc = "done"
    /\ \E i, j \in Entries :
          /\ i # j
          /\ placed[i].pass = "primary"
          /\ placed[j].pass = "primary"
          /\ sameSubreddit(i, j)

\* C5: in the returned schedule, primary-pass and fallback entries together,
\* no two entries with the same subreddit are less than 48 hours apart.
C5_AnySameSubreddit48h ==
    pc = "done" =>
        \A i, j \in 1..Len(ret) :
            (i # j /\ ret[i].thread.post.subreddit = ret[j].thread.post.subreddit)
                => Abs(ret[i].slot.date - ret[j].slot.date) >= 48

\* C6: with distinct thread ids the run returns exactly
\* min(postsPerWeek, number of threads) entries; with no threads it returns [].
C6_FillsAsManyAsPossible ==
    pc = "done" =>
        /\ distinctThreadIds =>
              Len(ret) = Min(campaign.postsPerWeek, Len(threads))
        /\ Len(threads) = 0 => ret = <<>>

\* a run the fallback pass completed: more threads than slots, distinct ids
C6_Witness ==
    /\ pc = "done"
    /\ distinctThreadIds
    /\ Len(threads) > campaign.postsPerWeek
    /\ Len(ret) = campaign.postsPerWeek
    /\ \E i \in 1..Len(ret) : placed[i].pass = "fallback"

\* C7: the returned list is in slot order as generated, not placement order:
\* an entry whose slot comes earlier in the generateTimeSlots sequence comes
\* earlier in the list.
C7_ReturnedInSlotOrder ==
    pc = "done" =>
        \A i, j \in 1..Len(ret) :
            placed[i].slotIndex < placed[j].slotIndex => i < j

\* C7 as amended: the returned list is in placement order, the primary-pass
\* entries in slot order followed by the fallback entries in slot order.
C7_ReturnedInPlacementOrder ==
    pc = "done" =>
        /\ \A i \in 1..Len(ret) : ret[i].slot = slots[placed[i].slotIndex]
        /\ \A i, j \in 1..Len(ret) :
              i < j =>
                  /\ placed[i].pass = "fallback" => placed[j].pass = "fallback"
                  /\ placed[i].pass = placed[j].pass
                        => placed[i].slotIndex < placed[j].slotIndex

\* a returned list whose fallback entry sits after an entry of a later slot
C7_Witness ==
    /\ pc = "done"
    /\ \E i, j \in 1..Len(ret) :
          /\ i < j
          /\ placed[i].pass = "primary"
          /\ placed[j].pass = "fallback"
          /\ placed[j].slotIndex < placed[i].slotIndex

-----------------------------------------------------------------------------
(* Specification of direct calls to generateTimeSlots *)

\* week starts on every weekday, at midnight and at 13:00
WeekStartChoices == {d * 24 + h : d \in 0..6, h \in {0, 13}}

SchedulerIdle ==
    /\ threads = <<>>
    /\ campaign = None
    /\ history = <<>>
    /\ personaUsage = None
    /\ keywordUrgency = None
    /\ slots = <<>>
    /\ scoredThreads = <<>>
    /\ slotIdx = 0
    /\ schedule = <<>>
    /\ usedThreads = {}
    /\ unfilledSlots = <<>>
    /\ remainingThreads = <<>>
    /\ personaUsageCounts = None
    /\ keywordUrgencies = None
    /\ placed = <<>>
    /\ idSuffix = FirstIdSuffix
    /\ gen = None
    /\ calendars = <<>>

InitSlots ==
    /\ pc = "call"
    /\ \E w \in WeekStartChoices, n \in 1..MaxSlotCount :
          call = [fn |-> "generateTimeSlots", weekStartDate |-> w,
                  postsPerWeek |-> n]
    /\ ret = None
    /\ SchedulerIdle

CallGenerateTimeSlots ==
    /\ pc = "call"
    /\ call.fn = "generateTimeSlots"
    /\ ret' = generateTimeSlots(call.weekStartDate, call.postsPerWeek)
    /\ pc' = "returned"
    /\ UNCHANGED <<call, schedVars>>

NextSlots == CallGenerateTimeSlots

SpecSlots == InitSlots /\ [][NextSlots]_vars

returnedSlots == pc = "returned" /\ call.fn = "generateTimeSlots"

\* day offset of slot i (from 0) as the claims state it: d_0 = 1,
\* d_(i+1) = d_i + floor(7/n), reduced modulo 7 when it reaches 7 or more
RECURSIVE statedDayOffset(_, _)
statedDayOffset(i, n) ==
    IF i = 0 THEN 1
    ELSE LET d == statedDayOffset(i - 1, n) + (7 \div n)
         IN  IF d >= 7 THEN d % 7 ELSE d

\* whole days between the day of weekStartDate and the day of a slot
daysAfter(weekStartDate, slot) == (slot.date \div 24) - (weekStartDate \div 24)

\* C2: for every postsPerWeek the API accepts (1 to 10) generateTimeSlots
\* returns pairwise distinct slots: no two with the same date and hour.
C2_SlotsPairwiseDistinct ==
    (returnedSlots /\ call.postsPerWeek <= ApiMaxPostsPerWeek) =>
        \A i, j \in 1..Len(ret) :
            i # j => ~(/\ ret[i].date = ret[j].date
                       /\ ret[i].preferredHour = ret[j].preferredHour)

\* C8: generateTimeSlots(weekStartDate, n) returns exactly n slots; slot i
\* has hour [9,12,15,18,21][i mod 5], lies d_i days after weekStartDate and
\* carries the weekday name of its date.
C8_SlotsAsStated ==
    returnedSlots =>
        LET n == call.postsPerWeek
            w == call.weekStartDate
        IN  /\ Len(ret) = n
            /\ \A i \in 0..(n - 1) :
                  LET slot == ret[i + 1]
                      d == statedDayOffset(i, n)
                  IN  /\ slot.preferredHour = <<9, 12, 15, 18, 21>>[(i % 5) + 1]
                      /\ daysAfter(w, slot) = d
                      /\ slot.date % 24 = slot.preferredHour
                      /\ slot.dayOfWeek
                            = daysOfWeek[(((w \div 24) + d) % 7) + 1]

\* a call with seven slots, whose last day offset wrapped from 7 to 0
C8_Witness ==
    /\ returnedSlots
    /\ call.postsPerWeek = 7
    /\ Len(ret) = 7
    /\ daysAfter(call.weekStartDate, ret[7]) = 0

mondayThreeSlots ==
    /\ returnedSlots
    /\ call.weekStartDate = Monday20250106
    /\ call.postsPerWeek = 3

\* C9: for weekStartDate 2025-01-06 (a Monday) and postsPerWeek 3 the slots
\* lie at day offsets 1, 3 and 0: Tuesday, Thursday and Sunday, at 9, 12, 15.
C9_TuesdayThursdaySunday ==
    mondayThreeSlots =>
        /\ Len(ret) = 3
        /\ [i \in 1..3 |-> daysAfter(call.weekStartDate, ret[i])] = <<1, 3, 0>>
        /\ [i \in 1..3 |-> ret[i].dayOfWeek]
              = <<"Tuesday", "Thursday", "Sunday">>
        /\ [i \in 1..3 |-> ret[i].preferredHour] = <<9, 12, 15>>

\* C9 as amended: the slots lie at day offsets 1, 3 and 5 (nothing wraps):
\* Tuesday, Thursday and Saturday, at 9, 12 and 15.
C9_TuesdayThursdaySaturday ==
    mondayThreeSlots =>
        /\ Len(ret) = 3
        /\ [i \in 1..3 |-> daysAfter(call.weekStartDate, ret[i])] = <<1, 3, 5>>
        /\ [i \in 1..3 |-> ret[i].dayOfWeek]
              = <<"Tuesday", "Thursday", "Saturday">>
        /\ [i \in 1..3 |-> ret[i].preferredHour] = <<9, 12, 15>>

\* the call of the scenario has returned
C9_Witness == mondayThreeSlots /\ Len(ret) = 3

-----------------------------------------------------------------------------
(* Specification of direct calls to checkSubredditFrequency *)

\* longest existingSchedule and history handed to checkSubredditFrequency
MaxFreqSchedule == 2
MaxFreqHistory == 1

FreqSubreddits == {"r/PowerPoint", "r/Canva"}
\* the proposed slot: Monday 2025-01-13 09:00
FreqProposedDate == 8 * 24 + 9
\* hours between a scheduled post and the proposed slot
FreqScheduleOffsets == {-48, -47, 47, 48}
\* hours between a posted post and the proposed slot
FreqHistoryOffsets == {-49, -48, 60}

FreqScheduled ==
    {[thread |-> [post |-> [subreddit |-> sub]],
      slot |-> [date |-> FreqProposedDate + o]] :
        sub \in FreqSubreddits, o \in FreqScheduleOffsets}

FreqPosted ==
    {[subreddit |-> sub, postedAt |-> FreqProposedDate + o] :
        sub \in FreqSubreddits, o \in FreqHistoryOffsets}

InitFreq ==
    /\ pc = "call"
    /\ \E sub \in FreqSubreddits,
          sched \in UNION {[1..n -> FreqScheduled] : n \in 0..MaxFreqSchedule},
          hist \in UNION {[1..n -> FreqPosted] : n \in 0..MaxFreqHistory} :
          call = [fn |-> "checkSubredditFrequency",
                  thread |-> [post |-> [subreddit |-> sub]],
                  existingSchedule |-> sched,
                  history |-> hist,
                  proposedSlot |-> [date |-> FreqProposedDate]]
    /\ ret = None
    /\ SchedulerIdle

CallCheckSubredditFrequency ==
    /\ pc = "call"
    /\ call.fn = "checkSubredditFrequency"
    /\ ret' = checkSubredditFrequency(call.thread, call.existingSchedule,
                                      call.history, call.proposedSlot)
    /\ pc' = "returned"
    /\ UNCHANGED <<call, schedVars>>

NextFreq == CallCheckSubredditFrequency

SpecFreq == InitFreq /\ [][NextFreq]_vars

returnedFreq == pc = "returned" /\ call.fn = "checkSubredditFrequency"

\* C10: checkSubredditFrequency fails if and only if a scheduled post of the
\* thread's subreddit lies strictly less than 48 hours from the proposed date
\* in either direction, or a history entry of that subreddit has
\* postedAt >= proposedDate - 48h; every failure reason contains "48 hours".
C10_FrequencyVerdict ==
    returnedFreq =>
        LET sub == call.thread.post.subreddit
            proposed == call.proposedSlot.date
            scheduledNear ==
                \E e \in Range(call.existingSchedule) :
                    /\ e.thread.post.subreddit = sub
                    /\ e.slot.date > proposed - 48
                    /\ e.slot.date < proposed + 48
            postedNear ==
                \E h \in Range(call.history) :
                    h.subreddit = sub /\ h.postedAt >= proposed - 48
        IN  /\ ret.passed = ~(scheduledNear \/ postedNear)
            /\ ~ret.passed => contains(ret.reason, "48 hours")

\* a rejection caused by the history alone, at exactly 48 hours, while the
\* schedule holds a post of the same subreddit exactly 48 hours away
C10_Witness ==
    /\ returnedFreq
    /\ ~ret.passed
    /\ \E h \in Range(call.history) :
          /\ h.subreddit = call.thread.post.subreddit
          /\ h.postedAt = call.proposedSlot.date - 48
    /\ \E e \in Range(call.existingSchedule) :
          /\ e.thread.post.subreddit = call.thread.post.subreddit
          /\ Abs(e.slot.date - call.proposedSlot.date) = 48
    /\ \A e \in Range(call.existingSchedule) :
          e.thread.post.subreddit = call.thread.post.subreddit
              => Abs(e.slot.date - call.proposedSlot.date) >= 48

-----------------------------------------------------------------------------
(* Specification of direct calls to checkPersonaSelfReply *)

\* longest comments array handed to checkPersonaSelfReply
MaxSelfReplyComments == 3

\* ids of the comments of one thread by position: the generator numbers them
\* comment_<Date.now()>_<comments.length>, so they differ within a thread
SelfReplyCommentIds == <<"comment_1736150400000_0", "comment_1736150400000_1", "comment_1736150400000_2", "comment_1736150400000_3", "comment_1736150400000_4">>

\* replyTo values: the post, the first or the third comment of the thread, and
\* comment_<index> as the generator writes it, which is no comment's id
SelfReplyTargets == {"root", SelfReplyCommentIds[1], SelfReplyCommentIds[3], "comment_0"}

SelfReplyThreads ==
    {[post |-> [opPersonaId |-> op],
      comments |-> [i \in 1..n |->
                       Comment(SelfReplyCommentIds[i], personas[i], targets[i],
                               FALSE, R(1))]] :
        op \in PersonaIds, n \in 0..MaxSelfReplyComments,
        personas \in [1..MaxSelfReplyComments -> PersonaIds],
        targets \in [1..MaxSelfReplyComments -> SelfReplyTargets]}

InitSelfReply ==
    /\ pc = "call"
    /\ \E thread \in SelfReplyThreads :
          call = [fn |-> "checkPersonaSelfReply", thread |-> thread]
    /\ ret = None
    /\ SchedulerIdle

CallCheckPersonaSelfReply ==
    /\ pc = "call"
    /\ call.fn = "checkPersonaSelfReply"
    /\ ret' = checkPersonaSelfReply(call.thread)
    /\ pc' = "returned"
    /\ UNCHANGED <<call, schedVars>>

NextSelfReply == CallCheckPersonaSelfReply

SpecSelfReply == InitSelfReply /\ [][NextSelfReply]_vars

returnedSelfReply == pc = "returned" /\ call.fn = "checkPersonaSelfReply"

\* C11: checkPersonaSelfReply fails if and only if two adjacent comments share
\* a personaId, or a comment's replyTo names a comment of the thread by the
\* same personaId (adjacent or not), or the first comment is by the OP; so a
\* thread without comments passes, and so does an OP comment further down.
C11_SelfReplyVerdict ==
    returnedSelfReply =>
        LET comments == call.thread.comments
            n == Len(comments)
            adjacent ==
                \E i \in 2..n : comments[i].personaId = comments[i - 1].personaId
            repliesToSelf ==
                \E i, j \in 1..n :
                    /\ comments[i].replyTo = comments[j].id
                    /\ comments[i].personaId = comments[j].personaId
            opFirst ==
                n > 0 /\ comments[1].personaId = call.thread.post.opPersonaId
        IN  /\ ret.passed = ~(adjacent \/ repliesToSelf \/ opFirst)
            /\ n = 0 => ret.passed

\* a thread that passes although the OP wrote its third comment
C11_Witness ==
    /\ returnedSelfReply
    /\ ret.passed
    /\ Len(call.thread.comments) = 3
    /\ call.thread.comments[3].personaId = call.thread.post.opPersonaId
    /\ call.thread.comments[3].replyTo = call.thread.comments[1].id

-----------------------------------------------------------------------------
(* Specification of direct calls to checkAllConstraints: one call, then a   *)
(* second call in which only inputs of the soft scores differ               *)

\* longest existingSchedule handed to checkAllConstraints
MaxAllSchedule == 2

\* the proposed slot: Wednesday 2025-01-08 12:00
AllSlotDate == 3 * 24 + 12

AllWeeklyLimits == {1, 2, 3}

\* posts scheduled 24 and 48 hours before the proposed slot
AllScheduled ==
    {[thread |-> t, slot |-> [date |-> AllSlotDate - o]] :
        t \in {ThreadA, ThreadC}, o \in {24, 48}}

AllSchedules == UNION {[1..n -> AllScheduled] : n \in 0..MaxAllSchedule}

AllHistories ==
    {<<>>,
     <<[subreddit |-> "r/PowerPoint", postedAt |-> AllSlotDate - 30,
        topicEmbedding |-> Embedding(<<4, 3>>)]>>,
     <<[subreddit |-> "r/Canva", postedAt |-> AllSlotDate - 72,
        topicEmbedding |-> Null]>>}

\* new Map(), and the maps of the test "repeated keywords" with a persona
\* used more than ten times
AllUsageCounts ==
    {<<>>, [p \in PersonaIds |-> IF p = "riley_ops" THEN 8 ELSE 25]}

AllUrgencies ==
    {<<>>,
     [k \in {"K1"} |-> Frac(1, 10)],
     [k \in KeywordIds |-> IF k = "K1" THEN R(0) ELSE R(1)]}

\* other inputs of the soft scores for the second call
AllSoftInputs ==
    {[title |-> <<<<"best", TRUE>>, <<"slide", FALSE>>>>,
      topicEmbedding |-> Null,
      personaUsageCounts |-> [p \in PersonaIds |-> 40],
      keywordUrgencies |-> [k \in KeywordIds |-> R(0)]],
     [title |-> <<<<"canva", FALSE>>>>,
      topicEmbedding |-> Embedding(<<-3, -4>>),
      personaUsageCounts |-> <<>>,
      keywordUrgencies |-> [k \in KeywordIds |-> R(1)]],
     [title |-> <<<<"deck", FALSE>>>>,
      topicEmbedding |-> Embedding(<<0, 0>>),
      personaUsageCounts |-> [p \in {"emily_econ"} |-> 3],
      keywordUrgencies |-> <<>>],
     [title |-> <<<<"tips", FALSE>>>>,
      topicEmbedding |-> Embedding(<<3, 4, 0>>),
      personaUsageCounts |-> [p \in PersonaIds |-> 0],
      keywordUrgencies |-> [k \in {"K2"} |-> Frac(1, 2)]]}

\* the thread with another title and embedding
withSoftInputs(thread, soft) ==
    [thread EXCEPT !.post.title = soft.title,
                   !.post.topicEmbedding = soft.topicEmbedding]

InitAll ==
    /\ pc = "call"
    /\ \E thread \in ThreadChoices, sched \in AllSchedules,
          hist \in AllHistories, limit \in AllWeeklyLimits,
          usage \in AllUsageCounts, urgencies \in AllUrgencies,
          soft \in AllSoftInputs :
          call = [fn |-> "checkAllConstraints",
                  thread |-> thread,
                  slot |-> [date |-> AllSlotDate],
                  existingSchedule |-> sched,
                  history |-> hist,
                  weeklyLimit |-> limit,
                  personaUsageCounts |-> usage,
                  keywordUrgencies |-> urgencies,
                  soft |-> soft]
    /\ ret = <<>>
    /\ SchedulerIdle

CallCheckAllConstraints ==
    /\ pc = "call"
    /\ call.fn = "checkAllConstraints"
    /\ ret' = <<checkAllConstraints(call.thread, call.slot,
                    call.existingSchedule, call.history, call.weeklyLimit,
                    call.personaUsageCounts, call.keywordUrgencies)>>
    /\ pc' = "returned"
    /\ UNCHANGED <<call, schedVars>>

CallCheckAllConstraintsAgain ==
    /\ pc = "returned"
    /\ call.fn = "checkAllConstraints"
    /\ ret' = Append(ret,
                checkAllConstraints(withSoftInputs(call.thread, call.soft),
                    call.slot, call.existingSchedule, call.history,
                    call.weeklyLimit, call.soft.personaUsageCounts,
                    call.soft.keywordUrgencies))
    /\ pc' = "returned again"
    /\ UNCHANGED <<call, schedVars>>

NextAll == CallCheckAllConstraints \/ CallCheckAllConstraintsAgain

SpecAll == InitAll /\ [][NextAll]_vars

returnedAll ==
    pc \in {"returned", "returned again"} /\ call.fn = "checkAllConstraints"

returnedAllAgain == pc = "returned again" /\ call.fn = "checkAllConstraints"

\* C12: passed is subredditFrequency AND personaNoSelfReply AND weeklyLimit,
\* weeklyLimit being false exactly when the schedule already holds
\* weeklyLimit entries or more; a call that differs only in persona usage
\* counts, keyword urgencies, embedding and title returns the same passed and
\* the same three flags.
C12_PassedIsHardConjunction ==
    returnedAll =>
        /\ \A i \in 1..Len(ret) :
              LET hard == ret[i].hardConstraints
              IN  /\ ret[i].passed = (/\ hard.subredditFrequency
                                      /\ hard.personaNoSelfReply
                                      /\ hard.weeklyLimit)
                  /\ hard.subredditFrequency =
                        checkSubredditFrequency(call.thread,
                            call.existingSchedule, call.history,
                            call.slot).passed
                  /\ hard.personaNoSelfReply =
                        checkPersonaSelfReply(call.thread).passed
                  /\ hard.weeklyLimit =
                        ~(Len(call.existingSchedule) >= call.weeklyLimit)
        /\ returnedAllAgain =>
              /\ ret[2].passed = ret[1].passed
              /\ ret[2].hardConstraints = ret[1].hardConstraints

\* two calls that pass with soft scores on either side of 0.3
C12_Witness ==
    /\ returnedAllAgain
    /\ ret[1].passed
    /\ ret[2].passed
    /\ RLt(ret[2].softConstraints.topicDiversity, Frac(3, 10))
    /\ RLt(ret[2].softConstraints.personaDistribution, Frac(3, 10))
    /\ RLt(Frac(3, 10), ret[1].softConstraints.topicDiversity)
    /\ RLt(Frac(3, 10), ret[1].softConstraints.personaDistribution)

-----------------------------------------------------------------------------
(* Specification of direct calls to scoreKeywordCoverage *)

\* longest targetKeywords array handed to scoreKeywordCoverage
MaxTargetKeywords == 2

\* urgencies a keyword can be given: just used, used a while ago, never used
UrgencyValues == {R(0), Frac(1, 10), Frac(1, 2), R(1)}

KeywordLists == UNION {[1..n -> KeywordIds] : n \in 0..MaxTargetKeywords}

InitKeyword ==
    /\ pc = "call"
    /\ \E targetKeywords \in KeywordLists, used \in SUBSET KeywordIds,
          urgencies \in [KeywordIds -> UrgencyValues] :
          call = [fn |-> "scoreKeywordCoverage",
                  thread |-> [post |-> [targetKeywords |-> targetKeywords]],
                  usedKeywordsThisWeek |-> used,
                  keywordUrgencies |-> urgencies]
    /\ ret = None
    /\ SchedulerIdle

CallScoreKeywordCoverage ==
    /\ pc = "call"
    /\ call.fn = "scoreKeywordCoverage"
    /\ ret' = scoreKeywordCoverage(call.thread, call.usedKeywordsThisWeek,
                                   call.keywordUrgencies)
    /\ pc' = "returned"
    /\ UNCHANGED <<call, schedVars>>

NextKeyword == CallScoreKeywordCoverage

SpecKeyword == InitKeyword /\ [][NextKeyword]_vars

returnedKeyword == pc = "returned" /\ call.fn = "scoreKeywordCoverage"

RECURSIVE sumOfSupplied(_, _)
sumOfSupplied(keywords, urgencies) ==
    IF keywords = <<>> THEN R(0)
    ELSE RAdd(urgencies[Head(keywords)],
              sumOfSupplied(Tail(keywords), urgencies))

\* C14: scoreKeywordCoverage returns 0.5 for a thread without target
\* keywords, and otherwise avgUrgency * 0.6 + noveltyRatio * 0.4 with
\* avgUrgency the mean of the urgencies supplied for the thread's keywords
\* (each in [0,1]) and noveltyRatio the fraction of them not used this week.
C14_CoverageOfSuppliedUrgencies ==
    returnedKeyword =>
        LET keywords == call.thread.post.targetKeywords
            n == Len(keywords)
            avgUrgency == RDiv(sumOfSupplied(keywords, call.keywordUrgencies),
                               R(n))
            noveltyRatio ==
                Frac(Cardinality({i \in 1..n :
                        keywords[i] \notin call.usedKeywordsThisWeek}), n)
        IN  IF n = 0 THEN ret = Frac(1, 2)
            ELSE ret = RAdd(RMul(avgUrgency, Frac(6, 10)),
                            RMul(noveltyRatio, Frac(4, 10)))

-----------------------------------------------------------------------------
(* Specification of direct calls to buildCalendar *)

\* longest schedule handed to buildCalendar
MaxCalendarEntries == 2

\* soft scores of an entry: all 1, those of the unit tests, all 0
SoftScoreChoices ==
    {[topicDiversity |-> R(1), personaDistribution |-> R(1),
      keywordCoverage |-> R(1)],
     [topicDiversity |-> Frac(8, 10), personaDistribution |-> Frac(7, 10),
      keywordCoverage |-> Frac(9, 10)],
     [topicDiversity |-> R(0), personaDistribution |-> R(0),
      keywordCoverage |-> R(0)]}

\* entries as scheduleThreads pushes them; the threads' personas and
\* keywords are those of the campaign, as the generator takes them from it
CalendarEntries ==
    {[thread |-> t,
      slot |-> [date |-> Monday20250106 + 24 + 9, dayOfWeek |-> "Tuesday",
                preferredHour |-> 9],
      status |-> "draft",
      constraintsSatisfied |-> [softConstraints |-> soft]] :
        t \in ThreadChoices, soft \in SoftScoreChoices}

CalendarSchedules ==
    UNION {[1..n -> CalendarEntries] : n \in 0..MaxCalendarEntries}

InitCalendar ==
    /\ pc = "call"
    /\ \E sched \in CalendarSchedules, camp \in CampaignChoices :
          call = [fn |-> "buildCalendar", schedule |-> sched,
                  campaign |-> camp, campaignId |-> "campaign_1"]
    /\ ret = None
    /\ SchedulerIdle

CallBuildCalendar ==
    /\ pc = "call"
    /\ call.fn = "buildCalendar"
    /\ ret' = buildCalendar(call.schedule, call.campaign, call.campaignId)
    /\ pc' = "returned"
    /\ UNCHANGED <<call, schedVars>>

NextCalendar == CallBuildCalendar

SpecCalendar == InitCalendar /\ [][NextCalendar]_vars

returnedCalendar == pc = "returned" /\ call.fn = "buildCalendar"

RECURSIVE sumOver(_, _)
sumOver(keys, record) ==
    IF keys = {} THEN R(0)
    ELSE LET k == CHOOSE x \in keys : TRUE
         IN  RAdd(record[k], sumOver(keys \ {k}, record))

RECURSIVE commentsBy(_, _, _)
commentsBy(p, sched, i) ==
    IF i > Len(sched) THEN 0
    ELSE Cardinality({j \in 1..Len(sched[i].thread.comments) :
                         sched[i].thread.comments[j].personaId = p})
         + commentsBy(p, sched, i + 1)

\* C15: totalPosts is the number of entries; subredditDistribution[s] is the
\* number of entries posted to s, so that its values add up to totalPosts;
\* personaUsage[p] is the number of entries with OP p plus half the number
\* of comments by p over all entries; keywordsCovered is the union of the
\* entries' target keywords without duplicates; weekEndDate is weekStartDate
\* plus 7 days.
C15_CalendarAggregates ==
    returnedCalendar =>
        LET sched == call.schedule
            meta == ret.metadata
            subs == {sched[i].thread.post.subreddit : i \in 1..Len(sched)}
            personas == UNION {threadPersonasOf(sched[i].thread) :
                                  i \in 1..Len(sched)}
        IN  /\ meta.totalPosts = Len(sched)
            /\ DOMAIN meta.subredditDistribution = subs
            /\ \A s \in subs :
                  meta.subredditDistribution[s] =
                      R(Cardinality({i \in 1..Len(sched) :
                                        sched[i].thread.post.subreddit = s}))
            /\ sumOver(subs, meta.subredditDistribution) = R(meta.totalPosts)
            /\ DOMAIN meta.personaUsage = personas
            /\ \A p \in personas :
                  meta.personaUsage[p] =
                      RAdd(R(Cardinality({i \in 1..Len(sched) :
                                  sched[i].thread.post.opPersonaId = p})),
                           Frac(commentsBy(p, sched, 1), 2))
            /\ Range(meta.keywordsCovered) = usedKeywordsOf(sched)
            /\ Len(meta.keywordsCovered) = Cardinality(usedKeywordsOf(sched))
            /\ ret.weekEndDate = call.campaign.weekStartDate + 7 * 24

\* two entries in one subreddit that share a keyword, and a persona that
\* wrote one post and one comment
C15_Witness ==
    /\ returnedCalendar
    /\ ret.metadata.totalPosts = 2
    /\ \E s \in DOMAIN ret.metadata.subredditDistribution :
          ret.metadata.subredditDistribution[s] = R(2)
    /\ \E p \in DOMAIN ret.metadata.personaUsage :
          ret.metadata.personaUsage[p] = Frac(3, 2)
    /\ Len(ret.metadata.keywordsCovered)
          < Len(call.schedule[1].thread.post.targetKeywords)
            + Len(call.schedule[2].thread.post.targetKeywords)

-----------------------------------------------------------------------------
(* Specification of calls to getNextWeekStart, each followed by a call to   *)
(* getNextMonday at the same reading of the clock                           *)

\* readings of the clock: every day of the week of Sunday 2025-01-05, at
\* 00:00, 10:00, 15:00 and 23:00
NowChoices == {d * 24 + h : d \in 0..6, h \in {0, 10, 15, 23}}

\* the last calendar: none, or one whose week ends on Monday 2025-01-13 at
\* 00:00, 01:00 or 23:00 or on Wednesday 2025-01-15 at 13:00
LastCalendarChoices ==
    {Null} \cup {[weekStartDate |-> e - 7 * 24, weekEndDate |-> e] :
                    e \in {8 * 24, 8 * 24 + 1, 8 * 24 + 23, 10 * 24 + 13}}

InitWeek ==
    /\ pc = "call"
    /\ \E now \in NowChoices, lastCalendar \in LastCalendarChoices :
          call = [fn |-> "getNextWeekStart", lastCalendar |-> lastCalendar,
                  now |-> now]
    /\ ret = <<>>
    /\ SchedulerIdle

CallGetNextWeekStart ==
    /\ pc = "call"
    /\ call.fn = "getNextWeekStart"
    /\ ret' = <<getNextWeekStart(call.lastCalendar, call.now)>>
    /\ pc' = "returned"
    /\ UNCHANGED <<call, schedVars>>

CallGetNextMonday ==
    /\ pc = "returned"
    /\ call.fn = "getNextWeekStart"
    /\ ret' = Append(ret, getNextMonday(call.now))
    /\ pc' = "returned again"
    /\ UNCHANGED <<call, schedVars>>

NextWeek == CallGetNextWeekStart \/ CallGetNextMonday

SpecWeek == InitWeek /\ [][NextWeek]_vars

returnedWeek ==
    pc \in {"returned", "returned again"} /\ call.fn = "getNextWeekStart"

-----------------------------------------------------------------------------
(* Specification of two runs of scheduleThreads, one after the other, on    *)
(* the same threads array and campaign, the persistence service answering   *)
(* both runs alike                                                          *)

\* longest threads argument handed to the two runs
MaxTwiceThreads == 2

TwiceThreadLists == UNION {[1..n -> ThreadChoices] : n \in 0..MaxTwiceThreads}

\* call is the caller's frame: the number of the run and, for comparison,
\* the arguments as they were before the first run and what that run returned
InitTwice ==
    /\ pc = "start"
    /\ threads \in TwiceThreadLists
    /\ campaign \in CampaignChoices
    /\ call = [fn |-> "scheduleThreads", run |-> 1, threads |-> threads,
               campaign |-> campaign, first |-> <<>>]
    /\ ret = None
    /\ \E p \in PersistenceChoices :
          /\ history = p.history
          /\ personaUsage = p.personaUsage
          /\ keywordUrgency = p.keywordUrgency
    /\ slots = <<>>
    /\ scoredThreads = <<>>
    /\ slotIdx = 0
    /\ schedule = <<>>
    /\ usedThreads = {}
    /\ unfilledSlots = <<>>
    /\ remainingThreads = <<>>
    /\ personaUsageCounts = None
    /\ keywordUrgencies = None
    /\ placed = <<>>
    /\ idSuffix = FirstIdSuffix
    /\ gen = None
    /\ calendars = <<>>

\* the caller calls scheduleThreads(threads, campaign) again, at a later
\* reading of the clock or within the same millisecond
StartSecondRun ==
    /\ pc = "done"
    /\ call.run = 1
    /\ call' = [call EXCEPT !.run = 2, !.first = ret]
    /\ idSuffix' \in IdSuffixChoices
    /\ pc' = "start"
    /\ UNCHANGED <<ret, threads, campaign, history, personaUsage,
                   keywordUrgency, slots, scoredThreads, slotIdx, schedule,
                   usedThreads, unfilledSlots, remainingThreads,
                   personaUsageCounts, keywordUrgencies, placed, gen,
                   calendars>>

NextTwice ==
    \/ StartScheduling
    \/ PrimaryCommit
    \/ PrimaryLeaveUnfilled
    \/ EnterFallback
    \/ FallbackCommit
    \/ FallbackNoThread
    \/ ReturnAfterPrimary
    \/ ReturnAfterFallback
    \/ StartSecondRun

SpecTwice == InitTwice /\ [][NextTwice]_vars

\* what C18 compares of a returned schedule
outcomeOf(sched) ==
    [i \in 1..Len(sched) |->
        <<sched[i].thread.id, sched[i].slot, sched[i].constraintsSatisfied>>]

\* C18: two runs on equal thread lists and campaigns with equal persistence
\* snapshots return the same sequence of (thread.id, slot,
\* constraintsSatisfied); the entries differ at most in their generated ids.
C18_SecondRunSameOutcome ==
    (pc = "done" /\ call.run = 2) =>
        /\ outcomeOf(ret) = outcomeOf(call.first)
        /\ \A i \in 1..Len(ret) :
              [ret[i] EXCEPT !.id = call.first[i].id] = call.first[i]

\* a second run that returned a primary-pass and a fallback entry, under
\* ids other than those of the first run
C18_Witness ==
    /\ pc = "done"
    /\ call.run = 2
    /\ Len(ret) >= 2
    /\ ret # call.first
    /\ \E i, j \in 1..Len(ret) :
          placed[i].pass = "primary" /\ placed[j].pass = "fallback"

\* number of entries of sched whose thread the persona posted
postsBy(sched, persona) ==
    Cardinality({i \in 1..Len(sched) :
                    sched[i].thread.post.opPersonaId = persona})

\* C19: a run leaves the threads array, its threads and the campaign as the
\* caller handed them in, and its persona-usage counters are those of the
\* persistence service plus the run's own placements: a second run sees
\* nothing of the counts an earlier run wrote.
C19_CallerDataAndCountersUntouched ==
    /\ threads = call.threads
    /\ campaign = call.campaign
    /\ pc \in {"primary", "fallback", "done"} =>
          \A p \in campaign.personas :
              personaUsageCounts[p] = personaUsage[p] + postsBy(schedule, p)

\* the second run is about to fill its first slot, the first run having
\* counted a placement for some persona
C19_Witness ==
    /\ pc = "primary"
    /\ call.run = 2
    /\ slotIdx = 0
    /\ Len(call.first) >= 2
    /\ \E p \in campaign.personas :
          /\ postsBy(call.first, p) >= 1
          /\ personaUsageCounts[p] = personaUsage[p]

-----------------------------------------------------------------------------
(* CalendarService.generateCalendar.  The generation service, the quality   *)
(* service and the scheduler are collaborators: a call to one of them       *)
(* returns one of the listed outcomes or throws.  The persistence service   *)
(* is the in-memory one; nothing has been saved when the call starts.       *)

\* most candidates generateCandidates returns
MaxCandidates == 3

\* a PostCandidate from which generateThread builds the given thread
candidateFor(id, thread, potentialImpact) ==
    [id |-> id, title |-> thread.post.title,
     subreddit |-> thread.post.subreddit,
     targetKeywords |-> thread.post.targetKeywords,
     opPersonaId |-> thread.post.opPersonaId,
     potentialImpact |-> potentialImpact]

AllCandidates ==
    <<candidateFor("cand_1", ThreadA, 60), candidateFor("cand_2", ThreadB, 80),
      candidateFor("cand_3", ThreadC, 80), candidateFor("cand_4", ThreadD, 90)>>

\* what generateCandidates may resolve to
CandidateLists == {SubSeq(AllCandidates, 1, n) : n \in 0..MaxCandidates}

\* the thread generateThread resolves to for a candidate
generatedThread(candidate) ==
    CHOOSE t \in ThreadChoices : t.post.title = candidate.title

\* what evaluateThread may resolve to
ReportChoices ==
    {[passed |-> TRUE, overallScore |-> 85],
     [passed |-> FALSE, overallScore |-> 55],
     [passed |-> FALSE, overallScore |-> 40]}

\* rankCandidates while the persistence service has recorded no use of a
\* keyword and no post: getKeywordUrgency is 1.0, getLastPostDateForSubreddit
\* is null
rankCandidates(candidates) ==
    sortByScore([k \in 1..Len(candidates) |->
        LET candidate == candidates[k]
            impact == RDiv(R(candidate.potentialImpact), R(100))
            urgency ==
                IF Len(candidate.targetKeywords) > 0 THEN R(1) ELSE Frac(1, 2)
            diversity == R(1)
        IN  [candidate |-> candidate,
             score |-> RAdd(RAdd(RMul(impact, Frac(4, 10)),
                                 RMul(urgency, Frac(35, 100))),
                            RMul(diversity, Frac(25, 100)))]])

\* the locals once generateCandidates has settled; thrown and scheduled
\* record which collaborators threw and what the scheduler returned
genLocals(rankedCandidates, thrown) ==
    [rankedCandidates |-> rankedCandidates,
     threads |-> <<>>,
     qualityResults |-> <<>>,
     qualifiedThreads |-> <<>>,
     warnings |-> <<>>,
     candidateIndex |-> 0,
     i |-> 0,
     thrown |-> thrown,
     scheduled |-> "not called"]

failure(message, warnings) ==
    [success |-> FALSE, errors |-> <<message>>, warnings |-> warnings,
     calendar |-> Null]

\* const batchSize = Math.max(2, campaign.postsPerWeek)
batchSizeOf(camp) == max(2, camp.postsPerWeek)

\* the condition of the while loop
moreToGenerate(g, camp) ==
    /\ Len(g.qualifiedThreads) < camp.postsPerWeek
    /\ g.candidateIndex < Len(g.rankedCandidates)

\* the candidate of the running iteration of the for loop
currentCandidate(g) == g.rankedCandidates[g.candidateIndex + g.i + 1].candidate

\* the loop counters after an iteration of the for loop: broke tells that
\* the iteration ended with break
afterIteration(g, camp, broke) ==
    LET batchEnd == Min(g.candidateIndex + batchSizeOf(camp),
                        Len(g.rankedCandidates))
    IN  IF ~broke /\ g.i + 1 < batchEnd - g.candidateIndex
        THEN [g EXCEPT !.i = g.i + 1]
        ELSE [g EXCEPT !.candidateIndex = batchEnd, !.i = 0]

\* where the call stands after the locals became g
pcAfterIteration(g, camp) ==
    IF g.i > 0 \/ moreToGenerate(g, camp) THEN "threads" ELSE "fill"

\* map.set(key, value)
mapSet(map, key, value) ==
    [k \in DOMAIN map \cup {key} |-> IF k = key THEN value ELSE map[k]]

\* qualityResults.get(id)?.overallScore || 0
overallScoreOr0(qualityResults, id) ==
    IF id \in DOMAIN qualityResults THEN qualityResults[id].overallScore ELSE 0

\* the threads that did not qualify, the best overallScore first
sortedFailedOf(g) ==
    LET failedThreads ==
            SelectSeq(g.threads,
                      LAMBDA t : \A j \in 1..Len(g.qualifiedThreads) :
                                    g.qualifiedThreads[j] # t)
        sorted ==
            sortByScore([k \in 1..Len(failedThreads) |->
                [thread |-> failedThreads[k],
                 score |-> R(overallScoreOr0(g.qualityResults,
                                             failedThreads[k].id))]])
    IN  [k \in 1..Len(sorted) |-> sorted[k].thread]

\* withBestFailing without the sort of the failed threads
withFirstFailing(g, camp) ==
    IF Len(g.qualifiedThreads) < camp.postsPerWeek
    THEN LET failedThreads ==
                 SelectSeq(g.threads,
                           LAMBDA t : \A j \in 1..Len(g.qualifiedThreads) :
                                         g.qualifiedThreads[j] # t)
             needed == camp.postsPerWeek - Len(g.qualifiedThreads)
             taken == SubSeq(failedThreads, 1, Min(needed, Len(failedThreads)))
         IN  [g EXCEPT
                !.qualifiedThreads = g.qualifiedThreads \o taken,
                !.warnings = g.warnings \o
                    [k \in 1..Len(taken) |->
                        <<"Using below-threshold thread", taken[k].post.title>>]]
    ELSE g

\* "If not enough threads passed, use best failing ones"
withBestFailing(g, camp) ==
    IF Len(g.qualifiedThreads) < camp.postsPerWeek
    THEN LET sortedFailed == sortedFailedOf(g)
             needed == camp.postsPerWeek - Len(g.qualifiedThreads)
             taken == SubSeq(sortedFailed, 1, Min(needed, Len(sortedFailed)))
         IN  [g EXCEPT
                !.qualifiedThreads = g.qualifiedThreads \o taken,
                !.warnings = g.warnings \o
                    [k \in 1..Len(taken) |->
                        <<"Using below-threshold thread", taken[k].post.title>>]]
    ELSE g

\* a non-empty schedule as a scheduler returns it for the qualified threads:
\* the first threads on the first slots of the week
returnedSchedule(qualifiedThreads, camp) ==
    LET timeSlots == generateTimeSlots(camp.weekStartDate, camp.postsPerWeek)
        n == Min(Len(qualifiedThreads), camp.postsPerWeek)
    IN  [k \in 1..n |->
            [id |-> <<"sched", FirstIdSuffix, k>>,
             thread |-> qualifiedThreads[k],
             slot |-> timeSlots[k],
             status |-> "draft",
             constraintsSatisfied |->
                 checkAllConstraints(qualifiedThreads[k], timeSlots[k], <<>>,
                                     <<>>, camp.postsPerWeek,
                                     [p \in camp.personas |-> 0],
                                     [w \in camp.keywords |-> R(1)])]]

\* the calendar with the quality reports attached to its entries
withQualityReports(calendar, qualityResults) ==
    [calendar EXCEPT !.entries =
        [k \in 1..Len(calendar.entries) |->
            LET entry == calendar.entries[k]
            IN  [id |-> entry.id, thread |-> entry.thread,
                 slot |-> entry.slot, status |-> entry.status,
                 constraintsSatisfied |-> entry.constraintsSatisfied,
                 qualityReport |->
                     IF entry.thread.id \in DOMAIN qualityResults
                     THEN qualityResults[entry.thread.id]
                     ELSE "undefined"]]]

\* generateCalendar(campaign, campaignId) on a service that saved nothing yet
InitGen ==
    /\ pc = "call"
    /\ \E camp \in CampaignChoices :
          call = [fn |-> "generateCalendar", campaign |-> camp,
                  campaignId |-> "campaign_1"]
    /\ ret = None
    /\ SchedulerIdle

\* generateCandidates rejects: the outer catch answers
GenerateCandidatesThrows ==
    /\ pc = "call"
    /\ call.fn = "generateCalendar"
    /\ gen' = genLocals(<<>>, {"generateCandidates"})
    /\ ret' = failure("API Error", <<>>)
    /\ pc' = "returned"
    /\ UNCHANGED <<call, runVars, idSuffix, calendars>>

GenerateNoCandidates ==
    /\ pc = "call"
    /\ call.fn = "generateCalendar"
    /\ gen' = genLocals(<<>>, {})
    /\ ret' = failure("Failed to generate any candidate posts", <<>>)
    /\ pc' = "returned"
    /\ UNCHANGED <<call, runVars, idSuffix, calendars>>

\* candidates come back and are ranked; postsPerWeek is at least 1, so the
\* while loop is entered
GenerateCandidates ==
    /\ pc = "call"
    /\ call.fn = "generateCalendar"
    /\ \E candidates \in CandidateLists :
          /\ Len(candidates) > 0
          /\ gen' = genLocals(rankCandidates(candidates), {})
          /\ pc' = pcAfterIteration(gen', call.campaign)
    /\ UNCHANGED <<call, ret, runVars, idSuffix, calendars>>

\* generateThread rejects: the inner catch pushes a warning and the for loop
\* goes on
GenerateThreadThrows ==
    /\ pc = "threads"
    /\ LET candidate == currentCandidate(gen)
           g == [gen EXCEPT
                   !.warnings = Append(gen.warnings,
                                       <<"Skipped candidate", candidate.title>>),
                   !.thrown = gen.thrown \cup {"generateThread"}]
       IN  /\ gen' = afterIteration(g, call.campaign, FALSE)
           /\ pc' = pcAfterIteration(gen', call.campaign)
    /\ UNCHANGED <<call, ret, runVars, idSuffix, calendars>>

\* the thread is pushed, then evaluateThread rejects
EvaluateThreadThrows ==
    /\ pc = "threads"
    /\ LET candidate == currentCandidate(gen)
           g == [gen EXCEPT
                   !.threads = Append(gen.threads, generatedThread(candidate)),
                   !.warnings = Append(gen.warnings,
                                       <<"Skipped candidate", candidate.title>>),
                   !.thrown = gen.thrown \cup {"evaluateThread"}]
       IN  /\ gen' = afterIteration(g, call.campaign, FALSE)
           /\ pc' = pcAfterIteration(gen', call.campaign)
    /\ UNCHANGED <<call, ret, runVars, idSuffix, calendars>>

\* the try block of the for loop runs to its end
ThreadEvaluated ==
    /\ pc = "threads"
    /\ \E report \in ReportChoices :
          LET thread == generatedThread(currentCandidate(gen))
              evaluated ==
                  [gen EXCEPT
                     !.threads = Append(gen.threads, thread),
                     !.qualityResults =
                         mapSet(gen.qualityResults, thread.id, report)]
              g == IF report.passed
                   THEN [evaluated EXCEPT
                           !.qualifiedThreads =
                               Append(gen.qualifiedThreads, thread)]
                   ELSE [evaluated EXCEPT
                           !.warnings =
                               Append(gen.warnings,
                                      <<"Quality check failed",
                                        thread.post.title,
                                        report.overallScore>>)]
              broke == Len(g.qualifiedThreads) >= call.campaign.postsPerWeek
          IN  /\ gen' = afterIteration(g, call.campaign, broke)
              /\ pc' = pcAfterIteration(gen', call.campaign)
    /\ UNCHANGED <<call, ret, runVars, idSuffix, calendars>>

NoCompleteThreads ==
    /\ pc = "fill"
    /\ Len(gen.threads) = 0
    /\ ret' = failure("Failed to generate any complete threads", gen.warnings)
    /\ pc' = "returned"
    /\ UNCHANGED <<call, gen, runVars, idSuffix, calendars>>

\* up to the call of scheduleThreads
SelectThreads ==
    /\ pc = "fill"
    /\ Len(gen.threads) # 0
    /\ gen' = withBestFailing(gen, call.campaign)
    /\ pc' = "schedule"
    /\ UNCHANGED <<call, ret, runVars, idSuffix, calendars>>

ScheduleThreadsThrows ==
    /\ pc = "schedule"
    /\ gen' = [gen EXCEPT !.thrown = gen.thrown \cup {"scheduleThreads"},
                          !.scheduled = "threw"]
    /\ ret' = failure("Scheduler failed", gen.warnings)
    /\ pc' = "returned"
    /\ UNCHANGED <<call, runVars, idSuffix, calendars>>

\* ScheduleReturnsEmpty with saveCalendar ahead of the check of the schedule
ScheduleReturnsEmptySavingFirst ==
    /\ pc = "schedule"
    /\ gen' = [gen EXCEPT !.scheduled = "empty"]
    /\ calendars' =
          Append(calendars,
                 buildCalendar(<<>>, call.campaign, call.campaignId))
    /\ ret' = failure("Scheduler could not create any valid schedule",
                      gen.warnings)
    /\ pc' = "returned"
    /\ UNCHANGED <<call, runVars, idSuffix>>

ScheduleReturnsEmpty ==
    /\ pc = "schedule"
    /\ gen' = [gen EXCEPT !.scheduled = "empty"]
    /\ ret' = failure("Scheduler could not create any valid schedule",
                      gen.warnings)
    /\ pc' = "returned"
    /\ UNCHANGED <<call, runVars, idSuffix, calendars>>

\* a schedule comes back: buildCalendar, the quality reports, saveCalendar
ScheduleAndSave ==
    /\ pc = "schedule"
    /\ LET returned == returnedSchedule(gen.qualifiedThreads, call.campaign)
           calendar ==
               withQualityReports(
                   buildCalendar(returned, call.campaign, call.campaignId),
                   gen.qualityResults)
       IN  /\ calendars' = Append(calendars, calendar)
           /\ ret' = [success |-> TRUE, errors |-> <<>>,
                      warnings |-> IF Len(gen.warnings) > 0
                                   THEN gen.warnings ELSE "undefined",
                      calendar |-> calendar]
    /\ gen' = [gen EXCEPT !.scheduled = "entries"]
    /\ pc' = "returned"
    /\ UNCHANGED <<call, runVars, idSuffix>>

NextGen ==
    \/ GenerateCandidatesThrows
    \/ GenerateNoCandidates
    \/ GenerateCandidates
    \/ GenerateThreadThrows
    \/ EvaluateThreadThrows
    \/ ThreadEvaluated
    \/ NoCompleteThreads
    \/ SelectThreads
    \/ ScheduleThreadsThrows
    \/ ScheduleReturnsEmpty
    \/ ScheduleAndSave

SpecGen == InitGen /\ [][NextGen]_vars

returnedGen == pc = "returned" /\ call.fn = "generateCalendar"

skippedWarnings(warnings) ==
    Cardinality({k \in 1..Len(warnings) : warnings[k][1] = "Skipped candidate"})

\* C20: generateCalendar answers success:false with a non-empty errors list
\* when no candidates are generated, when no thread can be generated, when
\* the scheduler returns an empty schedule, or when any collaborator throws;
\* saveCalendar is called exactly once on the path that returns success:true
\* and never on a path that returns success:false.
C20_AnyThrowFails ==
    returnedGen =>
        /\ (\/ Len(gen.rankedCandidates) = 0
            \/ Len(gen.threads) = 0
            \/ gen.scheduled = "empty"
            \/ gen.thrown # {})
               => (ret.success = FALSE /\ Len(ret.errors) > 0)
        /\ ret.success = TRUE => Len(calendars) = 1
        /\ ret.success = FALSE => Len(calendars) = 0

\* C20 as amended: success:false with a non-empty errors list when no
\* candidates are generated, when no thread can be generated, when the
\* scheduler returns an empty schedule, or when generateCandidates or
\* scheduleThreads throws; a throw of generateThread or evaluateThread for one
\* candidate is caught, leaves a "Skipped candidate" warning and does not
\* fail the call, which answers success:true exactly when the scheduler
\* returned entries; saveCalendar is called once, with the returned
\* calendar, on that path and on no other.
C20_FailuresAndSaves ==
    returnedGen =>
        /\ ret.success \in BOOLEAN
        /\ (\/ Len(gen.rankedCandidates) = 0
            \/ Len(gen.threads) = 0
            \/ gen.scheduled = "empty"
            \/ gen.thrown \cap {"generateCandidates", "scheduleThreads"} # {})
               => (ret.success = FALSE /\ Len(ret.errors) > 0)
        /\ ret.success = FALSE => (Len(ret.errors) > 0 /\ Len(calendars) = 0)
        /\ ret.success = TRUE <=> gen.scheduled = "entries"
        /\ ret.success = TRUE => calendars = <<ret.calendar>>
        /\ gen.thrown \cap {"generateThread", "evaluateThread"} # {}
               <=> skippedWarnings(gen.warnings) > 0

\* a call that skipped the candidate whose thread generation threw, and
\* saved and returned a calendar of the others
C20_Witness ==
    /\ returnedGen
    /\ "generateThread" \in gen.thrown
    /\ ret.success = TRUE
    /\ Len(ret.calendar.entries) >= 2
    /\ Len(calendars) = 1
    /\ skippedWarnings(ret.warnings) = 1

-----------------------------------------------------------------------------
(* Specification of direct calls to scoreToDiversity, computed in binary64  *)

\* topic embeddings with integer components; the norms of most of them are
\* not whole numbers
Vectors64 ==
    {<<1, 1, 1>>, <<2, 2, 2>>, <<1, 2, 3>>, <<3, 4, 0>>, <<1, 0, 0>>,
     <<0, 0, 0>>, <<-1, -1, -1>>, <<2, 3>>}

Embeddings64 == {Null} \cup {Embedding(v) : v \in Vectors64}

\* a thread with the given title and topic embedding
Thread64(title, topicEmbedding) ==
    Thread("thread_1", "r/PowerPoint", title, <<"K1">>, "riley_ops",
           topicEmbedding, <<>>, 70)

Titles64 ==
    {<<<<"best", FALSE>>, <<"slide", FALSE>>, <<"tools", FALSE>>>>,
     <<<<"slide", TRUE>>, <<"tips", FALSE>>>>}

\* the thread, one scheduled thread, and no history or one post of history
InitDiversity64 ==
    /\ pc = "call"
    /\ \E e1, e2 \in Embeddings64, t1, t2 \in Titles64, hist \in {<<>>,
              <<[subreddit |-> "r/Canva", postedAt |-> 20,
                 topicEmbedding |-> Embedding(<<1, 1, 2>>)]>>} :
          call = [fn |-> "scoreToDiversity",
                  thread |-> Thread64(t1, e1),
                  existingSchedule |->
                      <<[thread |-> Thread64(t2, e2),
                         slot |-> [date |-> AllSlotDate, dayOfWeek |-> "Wednesday",
                                   preferredHour |-> 12],
                         status |-> "draft"]>>,
                  history |-> hist]
    /\ ret = None
    /\ SchedulerIdle

CallScoreToDiversity64 ==
    /\ pc = "call"
    /\ call.fn = "scoreToDiversity"
    /\ ret' = scoreToDiversity64(call.thread, call.existingSchedule,
                                 call.history)
    /\ pc' = "returned"
    /\ UNCHANGED <<call, schedVars>>

NextDiversity64 == CallScoreToDiversity64

SpecDiversity64 == InitDiversity64 /\ [][NextDiversity64]_vars

returnedDiversity64 == pc = "returned" /\ call.fn = "scoreToDiversity"

\* 0 <= x <= 1
inUnitInterval64(x) ==
    /\ ~f64less(x, f64(0))
    /\ ~f64less(f64(1), x)

\* C13: for every thread, schedule and history the topic diversity score,
\* one of the three soft scores of checkAllConstraints, lies in [0, 1] as
\* the program computes it.
C13_TopicDiversityInUnitInterval ==
    returnedDiversity64 => inUnitInterval64(ret)

-----------------------------------------------------------------------------
(* Properties of the steps of scheduleThreads *)

\* longest threads argument of the runs that compare combined scores
MaxPrimaryThreads == 3

\* r/Canva like ThreadC and ahead of it by thread score, with the embedding
\* of the post in the history
ThreadE ==
    Thread("thread_5", "r/Canva",
           <<<<"canva", TRUE>>, <<"hacks", FALSE>>>>,
           <<"K2">>, "emily_econ", Embedding(<<3, 4>>), <<>>, 61)

\* ThreadC under another id and in another subreddit: the same scores
ThreadF ==
    Thread("thread_6", "r/GoogleSlides",
           <<<<"canva", TRUE>>, <<"tips", FALSE>>>>,
           <<"K2">>, "emily_econ", Embedding(<<4, 3>>), <<>>, 60)

PrimaryThreadLists ==
    UNION {[1..n -> {ThreadC, ThreadD, ThreadE, ThreadF}] :
              n \in 0..MaxPrimaryThreads}

InitPrimary ==
    /\ pc = "start"
    /\ call = None
    /\ ret = None
    /\ threads \in PrimaryThreadLists
    /\ campaign \in {c \in CampaignChoices : c.weekStartDate = Monday20250106}
    /\ \E p \in PersistenceChoices :
          /\ history = p.history
          /\ personaUsage = p.personaUsage
          /\ keywordUrgency = p.keywordUrgency
    /\ slots = <<>>
    /\ scoredThreads = <<>>
    /\ slotIdx = 0
    /\ schedule = <<>>
    /\ usedThreads = {}
    /\ unfilledSlots = <<>>
    /\ remainingThreads = <<>>
    /\ personaUsageCounts = None
    /\ keywordUrgencies = None
    /\ placed = <<>>
    /\ idSuffix = FirstIdSuffix
    /\ gen = None
    /\ calendars = <<>>

SpecPrimary == InitPrimary /\ [][Next]_vars

\* a slot of the primary pass is about to be taken
atPrimarySlot == pc = "primary" /\ slotIdx < Len(slots)

\* the result of checkAllConstraints for the k-th scored thread and the slot
\* about to be taken, against the schedule built so far
checkOfScored(k) ==
    checkAllConstraints(scoredThreads[k].thread, slots[slotIdx + 1], schedule,
                        history, campaign.postsPerWeek, personaUsageCounts,
                        keywordUrgencies)

\* the scored threads not yet used that pass for the slot about to be taken
passingUnused ==
    {k \in 1..Len(scoredThreads) :
        /\ scoredThreads[k].thread.id \notin usedThreads
        /\ checkOfScored(k).passed}

\* threadScore*0.6 + (topicDiversity*0.4 + personaDistribution*0.3
\*                    + keywordCoverage*0.3)*0.4, times 1000
statedCombinedScore(k) ==
    LET soft == checkOfScored(k).softConstraints
    IN  RAdd(RMul(scoredThreads[k].score, R(600)),
             RAdd(RMul(soft.topicDiversity, R(160)),
                  RAdd(RMul(soft.personaDistribution, R(120)),
                       RMul(soft.keywordCoverage, R(120)))))

\* the passing unused threads of maximal combined score
bestOfPassing ==
    {k \in passingUnused :
        \A j \in passingUnused :
            RLe(statedCombinedScore(j), statedCombinedScore(k))}

scoredInDescendingOrder ==
    \A i, j \in 1..Len(scoredThreads) :
        i < j => RLe(scoredThreads[j].score, scoredThreads[i].score)

primaryIds ==
    {schedule[i].thread.id : i \in {j \in Entries : placed[j].pass = "primary"}}

\* the scored threads still unused after the primary pass, best first
unusedAfterPrimary ==
    SelectSeq(scoredThreads, LAMBDA st : st.thread.id \notin primaryIds)

\* the primary pass has visited every slot: each has an entry of the primary
\* pass or is one of the unfilled slots, which are in generation order
primaryVisitedAll ==
    /\ \A i \in 1..Len(slots) :
          \/ \E j \in Entries :
                placed[j].pass = "primary" /\ placed[j].slotIndex = i
          \/ \E k \in 1..Len(unfilledSlots) :
                unfilledIndexes(placed, Len(slots))[k] = i
    /\ Len(unfilledIndexes(placed, Len(slots))) = Len(unfilledSlots)
    /\ unfilledSlots =
          [k \in 1..Len(unfilledSlots) |->
              slots[unfilledIndexes(placed, Len(slots))[k]]]

\* C22: the fallback pass starts only when the primary pass has visited
\* every slot; its k-th step takes the k-th unfilled slot, in generation
\* order, and commits the k-th best thread by thread score of those unused
\* after the primary pass, if there is one, whatever its constraint result;
\* the entry records checkAllConstraints against the schedule of that moment.
C22_FallbackTakesNextBest ==
    [][/\ pc' = "fallback" => (pc = "fallback" \/ slotIdx = Len(slots))
       /\ (pc = "fallback" /\ slotIdx < Len(unfilledSlots)) =>
             /\ primaryVisitedAll
             /\ \A i, j \in 1..Len(unusedAfterPrimary) :
                   i < j => RLe(unusedAfterPrimary[j].score,
                                unusedAfterPrimary[i].score)
             /\ slotIdx' = slotIdx + 1
             /\ IF slotIdx + 1 > Len(unusedAfterPrimary)
                THEN schedule' = schedule
                ELSE schedule' =
                         Append(schedule,
                             [id |-> schedule'[Len(schedule')].id,
                              thread |-> unusedAfterPrimary[slotIdx + 1].thread,
                              slot |-> unfilledSlots[slotIdx + 1],
                              status |-> "draft",
                              constraintsSatisfied |->
                                  checkAllConstraints(
                                      unusedAfterPrimary[slotIdx + 1].thread,
                                      unfilledSlots[slotIdx + 1], schedule,
                                      history, campaign.postsPerWeek,
                                      personaUsageCounts,
                                      keywordUrgencies)])]_vars

\* a returned schedule with two entries of the fallback pass, the second in
\* conflict with the first only: its subreddit is that of no other entry and
\* of no post of the history, and its subreddit check failed
C22_Witness ==
    /\ pc = "done"
    /\ \E i, j \in Entries :
          /\ i < j
          /\ placed[i].pass = "fallback"
          /\ placed[j].pass = "fallback"
          /\ sameSubreddit(i, j)
          /\ \A k \in Entries \ {i, j} : ~sameSubreddit(k, j)
          /\ \A k \in 1..Len(history) :
                history[k].subreddit # schedule[j].thread.post.subreddit
          /\ ~schedule[j].constraintsSatisfied.hardConstraints.subredditFrequency

usageSnapshot == [p \in campaign.personas |-> personaUsage[p]]

\* the candidates the next step evaluates: in the primary pass the scored
\* threads not used yet, in the fallback pass the first remaining thread
evaluated ==
    IF pc = "primary" /\ slotIdx < Len(slots)
    THEN {scoredThreads[k].thread : k \in {j \in 1..Len(scoredThreads) : scoredThreads[j].thread.id \notin usedThreads}}
    ELSE IF pc = "fallback" /\ slotIdx < Len(unfilledSlots)
    THEN {remainingThreads[k].thread : k \in {j \in {1} : j <= Len(remainingThreads)}}
    ELSE {}

\* C24: whenever a candidate is evaluated during scheduleThreads, the total
\* usage behind its personaDistribution is the usage of its personas in the
\* snapshot read at the start of the run, plus 1 for each committed entry
\* whose OP is one of them, plus 0.5 for each comment of a committed entry by
\* one of them, and the score is max(0, 1 - (total / personas) / 10).
C24_UsageFromSnapshotAndSchedule ==
    \A thread \in evaluated :
        /\ totalUsageOf(thread, schedule, personaUsageCounts)
              = totalUsageOf(thread, schedule, usageSnapshot)
        /\ scorePersonaDistribution(thread, schedule, personaUsageCounts)
              = scorePersonaDistribution(thread, schedule, usageSnapshot)

-----------------------------------------------------------------------------
(* PersistenceService: saveCalendar and getKeywordUrgency *)

\* most saveCalendar calls explored
MaxSavedCalendars == 2

\* most entries of a saved calendar
MaxSavedEntries == 1

\* the week starts of the saved calendars: Monday 2024-12-23, 2025-01-06,
\* 2025-01-13 and 2025-01-20, 00:00
SavedWeekStarts ==
    {Monday20250106 - 14 * 24, Monday20250106, Monday20250106 + 7 * 24,
     Monday20250106 + 14 * 24}

\* Date.now() at the call: Monday 2025-01-13 12:00, Wednesday 2025-01-22 00:00
UrgencyNowChoices == {Monday20250106 + 7 * 24 + 12, Monday20250106 + 16 * 24}

SavedCalendars ==
    {[id |-> "cal_1", weekStartDate |-> w,
      entries |-> [i \in 1..Len(ts) |-> [thread |-> ts[i]]]] :
        w \in SavedWeekStarts,
        ts \in UNION {[1..n -> {ThreadA, ThreadB}] : n \in 0..MaxSavedEntries}}

\* Math.max(...dates)
latestOf(dates) == CHOOSE d \in dates : \A e \in dates : e <= d

\* this.keywordUsage.get(keywordId) after the saveCalendar calls made:
\* trackEntryUsage pushes weekStart once for each target keyword of each entry
RECURSIVE keywordUsageOf(_, _)
keywordUsageOf(saved, keywordId) ==
    IF saved = <<>> THEN <<>>
    ELSE LET calendar == saved[Len(saved)]
             pushes ==
                 {<<i, j>> \in (1..Len(calendar.entries)) \X (1..MaxTargetKeywords) :
                     /\ j <= Len(calendar.entries[i].thread.post.targetKeywords)
                     /\ calendar.entries[i].thread.post.targetKeywords[j] = keywordId}
         IN  keywordUsageOf(SubSeq(saved, 1, Len(saved) - 1), keywordId)
                 \o [n \in 1..Cardinality(pushes) |-> calendar.weekStartDate]

getKeywordUrgency(saved, keywordId, now) ==
    LET dates == keywordUsageOf(saved, keywordId)
        lastUsed == latestOf({dates[i] : i \in 1..Len(dates)})
        daysSinceUsed == Frac(now - lastUsed, 24)
    IN  IF Len(dates) = 0 THEN R(1)
        ELSE RMin(R(1), RDiv(daysSinceUsed, R(14)))

InitUrgency ==
    /\ pc = "call"
    /\ call = None
    /\ ret = None
    /\ SchedulerIdle

SaveCalendar ==
    /\ pc \in {"call", "returned"}
    /\ Len(calendars) < MaxSavedCalendars
    /\ \E calendar \in SavedCalendars : calendars' = Append(calendars, calendar)
    /\ call' = None
    /\ ret' = None
    /\ pc' = "call"
    /\ UNCHANGED <<runVars, idSuffix, gen>>

CallGetKeywordUrgency ==
    /\ pc = "call"
    /\ \E keywordId \in KeywordIds \cup {"K_never_used"}, now \in UrgencyNowChoices :
          /\ call' = [fn |-> "getKeywordUrgency", keywordId |-> keywordId,
                      now |-> now]
          /\ ret' = getKeywordUrgency(calendars, keywordId, now)
    /\ pc' = "returned"
    /\ UNCHANGED schedVars

NextUrgency == SaveCalendar \/ CallGetKeywordUrgency

SpecUrgency == InitUrgency /\ [][NextUrgency]_vars

returnedUrgency == pc = "returned" /\ call.fn = "getKeywordUrgency"

\* the week starts of the saved calendars with an entry for the keyword
weeksTargeting(keywordId) ==
    {calendars[c].weekStartDate :
        c \in {d \in 1..Len(calendars) :
                  \E i \in 1..Len(calendars[d].entries) :
                      keywordId \in Range(calendars[d].entries[i].thread.post.targetKeywords)}}

\* C25: after any saveCalendar calls getKeywordUrgency returns a value of
\* [0, 1]: 1.0 for a keyword of no saved entry, and otherwise
\* min(1, daysSinceLastUse / 14), the last use being the latest weekStartDate
\* of the saved calendars with an entry targeting the keyword.
C25_KeywordUrgencyInUnitInterval ==
    returnedUrgency =>
        /\ RLe(R(0), ret) /\ RLe(ret, R(1))
        /\ IF weeksTargeting(call.keywordId) = {}
           THEN ret = R(1)
           ELSE ret = RMin(R(1),
                           RDiv(Frac(call.now - latestOf(weeksTargeting(call.keywordId)), 24),
                                R(14)))

-----------------------------------------------------------------------------
(* The threads generateCalendar hands to scheduleThreads *)

\* the index in rankedCandidates of the candidate last taken up
positionOf(g) == g.candidateIndex + g.i

\* the generated threads whose quality report passed, as generated
passedThreads ==
    SelectSeq(gen.threads,
              LAMBDA t : /\ t.id \in DOMAIN gen.qualityResults
                         /\ gen.qualityResults[t.id].passed)

\* the generated threads without a passing report
failingThreads ==
    {gen.threads[k] : k \in 1..Len(gen.threads)} \ Range(passedThreads)

\* the argument of scheduleThreads is as C26 says
handedAsStated ==
    LET handed == gen.qualifiedThreads
        n == Len(handed)
        np == Len(passedThreads)
        scoreOf(t) == overallScoreOr0(gen.qualityResults, t.id)
    IN  /\ n = Min(call.campaign.postsPerWeek, Len(gen.threads))
        /\ Cardinality(Range(handed)) = n
        /\ np <= n
        /\ SubSeq(handed, 1, np) = passedThreads
        /\ n > np => np < call.campaign.postsPerWeek
        /\ \A k \in (np + 1)..n :
              /\ handed[k] \in failingThreads
              /\ \A l \in (k + 1)..n : scoreOf(handed[l]) <= scoreOf(handed[k])
              /\ \A t \in failingThreads \ Range(handed) :
                    scoreOf(t) <= scoreOf(handed[k])

\* C26: scheduleThreads is handed min(postsPerWeek, generated threads)
\* threads: every thread that passed the quality check and, only when fewer
\* than postsPerWeek passed, the failing threads of highest overallScore,
\* best first.  Each ranked candidate is taken up at most once, in rank
\* order, and generateThread is not called again once postsPerWeek threads
\* have passed.
C26_HandsBestThreads ==
    [][/\ pc = "schedule" => handedAsStated
       /\ pc = "threads" =>
             /\ Len(gen.qualifiedThreads) < call.campaign.postsPerWeek
             /\ Len(passedThreads) < call.campaign.postsPerWeek
             /\ positionOf(gen) < Len(gen.rankedCandidates)
             /\ \A i, j \in 1..Len(gen.rankedCandidates) :
                   i < j => RLe(gen.rankedCandidates[j].score,
                                gen.rankedCandidates[i].score)
             /\ pc' = "threads" => positionOf(gen') > positionOf(gen)
             /\ \/ gen'.threads = gen.threads
                \/ gen'.threads =
                      Append(gen.threads,
                             generatedThread(
                                 gen.rankedCandidates[positionOf(gen) + 1].candidate))]_vars

\* scheduleThreads is about to be called with a passing thread and the
\* better of two failing ones, which was generated after the other
C26_Witness ==
    /\ pc = "schedule"
    /\ Len(passedThreads) = 1
    /\ Len(gen.qualifiedThreads) = 2
    /\ \E i, j \in 1..Len(gen.threads) :
          /\ i < j
          /\ gen.threads[i] \in failingThreads \ Range(gen.qualifiedThreads)
          /\ gen.threads[j] = gen.qualifiedThreads[2]
          /\ gen.threads[j] \in failingThreads

-----------------------------------------------------------------------------
(* GenerationService.fixConsecutiveComments *)

\* longest planned comment list explored
MaxPlannedComments == 3

\* A name is <<letters, capitalised>>, as a word of a title is; the personas
\* of the sample data, a persona being an id and a username
FixPersonas ==
    <<[id |-> <<"random_user_1", FALSE>>, username |-> <<"throwaway_2847", FALSE>>],
      [id |-> <<"random_user_2", FALSE>>, username |-> <<"lurker_turned_poster", FALSE>>],
      [id |-> <<"random_user_3", FALSE>>, username |-> <<"helpful_stranger_42", FALSE>>]>>

\* what the director may name as the author of a comment: an id, a
\* username, either one with capitals, or a name of no persona
PlannedAuthors ==
    {<<"random_user_1", FALSE>>, <<"random_user_2", FALSE>>,
     <<"random_user_3", FALSE>>, <<"random_user_1", TRUE>>,
     <<"throwaway_2847", TRUE>>, <<"lurker_turned_poster", FALSE>>,
     <<"someone_else", FALSE>>}

PlannedComments ==
    UNION {[1..n -> {[personaId |-> a] : a \in PlannedAuthors}] :
              n \in 1..MaxPlannedComments}

\* usernameToId.get(key): the id of the last persona whose lower-cased
\* username or id is the key, or Null
usernameToIdGet(availablePersonas, key) ==
    LET hits == {k \in 1..Len(availablePersonas) :
                    \/ toLowerCase(availablePersonas[k].username) = key
                    \/ toLowerCase(availablePersonas[k].id) = key}
    IN  IF hits = {} THEN Null
        ELSE availablePersonas[CHOOSE k \in hits : \A l \in hits : l <= k].id

\* "Normalize all personaIds to actual IDs first"
normalized(comments, availablePersonas) ==
    [k \in 1..Len(comments) |->
        LET id == usernameToIdGet(availablePersonas,
                                  toLowerCase(comments[k].personaId))
        IN  IF id = Null THEN comments[k]
            ELSE [comments[k] EXCEPT !.personaId = id]]

\* the comment lists the loop "Fix consecutive duplicates" may leave from
\* index i on (indexes from 1), one for each draw of Math.random()
RECURSIVE fixDuplicatesFrom(_, _, _)
fixDuplicatesFrom(comments, availableIds, i) ==
    IF i > Len(comments) THEN {comments}
    ELSE IF comments[i].personaId = comments[i - 1].personaId
    THEN LET avoid ==
                 {comments[i - 1].personaId}
                     \cup (IF i + 1 <= Len(comments)
                           THEN {comments[i + 1].personaId} ELSE {})
             alternatives == Range(availableIds) \ avoid
         IN  IF alternatives # {}
             THEN UNION {fixDuplicatesFrom(
                             [comments EXCEPT ![i].personaId = newPersona],
                             availableIds, i + 1) :
                                 newPersona \in alternatives}
             ELSE fixDuplicatesFrom(comments, availableIds, i + 1)
    ELSE fixDuplicatesFrom(comments, availableIds, i + 1)

\* "Also ensure OP is not the first commenter"
fixFirstCommenter(comments, availablePersonas, availableIds, opPersonaId) ==
    LET firstPersona ==
            usernameToIdGet(availablePersonas,
                            toLowerCase(comments[1].personaId))
        found == usernameToIdGet(availablePersonas, toLowerCase(opPersonaId))
        opId == IF found = Null THEN opPersonaId ELSE found
        alternatives == Range(availableIds) \ {opId}
    IN  IF /\ \/ (firstPersona # Null /\ firstPersona = opId)
              \/ comments[1].personaId = opPersonaId
           /\ alternatives # {}
        THEN {[comments EXCEPT ![1].personaId = newPersona] :
                 newPersona \in alternatives}
        ELSE {comments}

\* the comment lists fixConsecutiveComments may leave behind
fixConsecutiveComments(comments, availablePersonas, opPersonaId) ==
    LET availableIds ==
            SelectSeq([k \in 1..Len(availablePersonas) |->
                          availablePersonas[k].id],
                      LAMBDA id : id # opPersonaId)
    IN  IF Len(comments) < 2 THEN {comments}
        ELSE UNION {fixFirstCommenter(fixed, availablePersonas, availableIds,
                                      opPersonaId) :
                       fixed \in fixDuplicatesFrom(
                                    normalized(comments, availablePersonas),
                                    availableIds, 2)}

\* generateThread has a plan with comments: two or three personas, one of
\* them the OP of the candidate
InitFix ==
    /\ pc = "call"
    /\ \E n \in 2..Len(FixPersonas), op \in 1..2, comments \in PlannedComments :
          call = [fn |-> "fixConsecutiveComments", comments |-> comments,
                  availablePersonas |-> SubSeq(FixPersonas, 1, n),
                  opPersonaId |-> FixPersonas[op].id]
    /\ ret = None
    /\ SchedulerIdle

CallFixConsecutiveComments ==
    /\ pc = "call"
    /\ call.fn = "fixConsecutiveComments"
    /\ \E fixed \in fixConsecutiveComments(call.comments,
                                           call.availablePersonas,
                                           call.opPersonaId) :
          ret' = fixed
    /\ pc' = "returned"
    /\ UNCHANGED <<call, schedVars>>

NextFix == CallFixConsecutiveComments

SpecFix == InitFix /\ [][NextFix]_vars

returnedFix == pc = "returned" /\ call.fn = "fixConsecutiveComments"

\* C27: for a campaign of at least two personas and any planned comments,
\* once fixConsecutiveComments has returned no two adjacent comments have
\* the same personaId and the first comment is not by the OP, whatever
\* replacement personas were drawn.
C27_NoAdjacentNoOpFirst ==
    returnedFix =>
        /\ \A i \in 1..(Len(ret) - 1) : ret[i].personaId # ret[i + 1].personaId
        /\ ret[1].personaId # call.opPersonaId

-----------------------------------------------------------------------------
(* The weekly limit inside scheduleThreads *)

\* the indexes in slots of the slots visited so far by the pass that runs
visitedSlots ==
    IF pc = "primary" THEN 1..slotIdx
    ELSE IF pc = "fallback"
    THEN {i \in 1..Len(slots) :
             \A k \in (slotIdx + 1)..Len(unfilledSlots) :
                 unfilledIndexes(placed, Len(slots))[k] # i}
    ELSE 1..Len(slots)

\* C28: at every step of scheduleThreads the schedule has at most one entry
\* for each slot visited so far and none for another slot, so it has fewer
\* than postsPerWeek entries whenever a candidate is checked: no entry
\* records a failed weekly limit, and at most postsPerWeek entries are
\* returned.
C28_WeeklyLimitNeverFails ==
    pc \in {"primary", "fallback", "done"} =>
        /\ Len(slots) = campaign.postsPerWeek
        /\ \A i \in Entries : placed[i].slotIndex \in visitedSlots
        /\ \A i, j \in Entries :
              i # j => placed[i].slotIndex # placed[j].slotIndex
        /\ evaluated # {} =>
              /\ Len(schedule) < campaign.postsPerWeek
              /\ \A thread \in evaluated :
                    checkAllConstraints(thread, slots[1], schedule, history,
                        campaign.postsPerWeek, personaUsageCounts,
                        keywordUrgencies).hardConstraints.weeklyLimit
        /\ \A i \in Entries :
              schedule[i].constraintsSatisfied.hardConstraints.weeklyLimit
        /\ Len(schedule) <= campaign.postsPerWeek
        /\ pc = "done" =>
              /\ Len(ret) <= campaign.postsPerWeek
              /\ \A i \in 1..Len(ret) :
                    ret[i].constraintsSatisfied.hardConstraints.weeklyLimit

\* a full week is returned, its last entry committed by the fallback pass
\* when the schedule was one short of postsPerWeek
C28_Witness ==
    /\ pc = "done"
    /\ Len(ret) = campaign.postsPerWeek
    /\ Len(ret) >= 2
    /\ placed[Len(ret)].pass = "fallback"
    /\ ~ret[Len(ret)].constraintsSatisfied.passed

-----------------------------------------------------------------------------
(* The slots and the week of the calendar *)

\* weekEnd.setDate(weekEnd.getDate() + 7) on a copy of weekStartDate
weekEndOf(weekStartDate) == weekStartDate + 7 * 24

\* C29: for a weekStartDate at midnight and a postsPerWeek of 1 to 10 every
\* slot of generateTimeSlots lies 0 to 6 days after weekStartDate at hour 9,
\* 12, 15, 18 or 21, so that its date is in the week of the calendar, from
\* weekStartDate up to but not including weekEndDate = weekStartDate + 7 days.
C29_SlotsWithinWeek ==
    (/\ returnedSlots
     /\ call.weekStartDate % 24 = 0
     /\ call.postsPerWeek \in 1..ApiMaxPostsPerWeek) =>
        \A i \in 1..Len(ret) :
            /\ daysAfter(call.weekStartDate, ret[i]) \in 0..6
            /\ ret[i].preferredHour \in {9, 12, 15, 18, 21}
            /\ ret[i].date % 24 = ret[i].preferredHour
            /\ call.weekStartDate <= ret[i].date
            /\ ret[i].date < weekEndOf(call.weekStartDate)

\* seven slots for a week that starts at midnight, one of them on the first
\* day of the week and one on its last day
C29_Witness ==
    /\ returnedSlots
    /\ call.weekStartDate % 24 = 0
    /\ call.postsPerWeek = 7
    /\ \E i, j \in 1..Len(ret) :
          /\ daysAfter(call.weekStartDate, ret[i]) = 0
          /\ daysAfter(call.weekStartDate, ret[j]) = 6

-----------------------------------------------------------------------------
(* CalendarService.generateNextWeek, called again and again on a service    *)
(* that has saved nothing at first                                          *)

\* most calendars generated in a row
MaxChainedWeeks == 3

\* persistence.getLatestCalendar(): the calendar created last, calendars
\* being created in the order in which they are saved
getLatestCalendar(saved) == IF saved = <<>> THEN Null ELSE saved[Len(saved)]

\* campaign with weekStartDate replaced by the next week start
updatedCampaignOf(camp, saved, now) ==
    [camp EXCEPT !.weekStartDate = getNextWeekStart(getLatestCalendar(saved), now)]

InitChain ==
    /\ pc = "call"
    /\ \E now \in NowChoices, camp \in CampaignChoices :
          /\ camp.weekStartDate = Monday20250106
          /\ call = [fn |-> "generateNextWeek", campaign |-> camp,
                     campaignId |-> "campaign_1", now |-> now]
    /\ ret = None
    /\ SchedulerIdle

\* generateCalendar answers success:false and saves nothing
GenerateNextWeekFails ==
    /\ pc = "call"
    /\ call.fn = "generateNextWeek"
    /\ Len(calendars) < MaxChainedWeeks
    /\ ret' = failure("Failed to generate any candidate posts", <<>>)
    /\ UNCHANGED <<pc, call, schedVars>>

\* generateCalendar builds, saves and returns the calendar of the next week
GenerateNextWeek ==
    /\ pc = "call"
    /\ call.fn = "generateNextWeek"
    /\ Len(calendars) < MaxChainedWeeks
    /\ \E qualified \in {<<ThreadA>>, <<ThreadA, ThreadC>>} :
          LET updatedCampaign ==
                  updatedCampaignOf(call.campaign, calendars, call.now)
              calendar ==
                  buildCalendar(returnedSchedule(qualified, updatedCampaign),
                                updatedCampaign, call.campaignId)
          IN  /\ calendars' = Append(calendars, calendar)
              /\ ret' = [success |-> TRUE, errors |-> <<>>,
                         warnings |-> "undefined", calendar |-> calendar]
    /\ UNCHANGED <<pc, call, runVars, idSuffix, gen>>

NextChain == GenerateNextWeekFails \/ GenerateNextWeek

SpecChain == InitChain /\ [][NextChain]_vars

\* C30: the calendars of a chain of generateNextWeek calls cover consecutive
\* weeks that neither overlap nor skip a day and begin on one weekday: each
\* weekStartDate is exactly 7 days after the one before, where the calendar
\* before ends.
C30_WeeksAreConsecutive ==
    (pc = "call" /\ call.fn = "generateNextWeek") =>
        \A k \in 1..(Len(calendars) - 1) :
            /\ calendars[k + 1].weekStartDate
                  = calendars[k].weekStartDate + 7 * 24
            /\ calendars[k + 1].weekStartDate = calendars[k].weekEndDate
            /\ getDay(calendars[k + 1].weekStartDate)
                  = getDay(calendars[k].weekStartDate)

====
